---- MODULE Spec2Model ----
(***************************************************************************)
(* A model of sxwebs.  Package sxhtml: the Generator that renders an       *)
(* s-expression (sx.Object) as HTML text into an io.Writer.  Package       *)
(* sxhtmls: the conversion of a tree of htmls.Node into such an            *)
(* s-expression.  Package sxforms: the validation of a Form and the        *)
(* select element.                                                         *)
(*                                                                         *)
(* Text is modelled as a sequence of bytes; a byte is a one-character      *)
(* string ("a", "&", " "), the NUL byte is "NUL", and a byte >= 0x80 is    *)
(* written "xHH" (two lower-case hex digits).                              *)
(***************************************************************************)
EXTENDS Integers, Sequences, FiniteSets, TLC

VARIABLES gen, call, pc, myEncoder, ret, log, form, se

vars == <<gen, call, pc, myEncoder, ret, log, form, se>>

----------------------------------------------------------------------------
(* Helpers on byte strings.                                                *)

Min(a, b) == IF a < b THEN a ELSE b

Take(s, n) == SubSeq(s, 1, Min(n, Len(s)))

Drop(s, n) == SubSeq(s, n + 1, Len(s))

RECURSIVE Concat(_)
Concat(sl) == IF sl = <<>> THEN <<>> ELSE Head(sl) \o Concat(Tail(sl))

HasPrefix(s, p) == Len(s) >= Len(p) /\ SubSeq(s, 1, Len(p)) = p

\* strings.Contains
Contains(s, sub) ==
    \E i \in 1..(Len(s) - Len(sub) + 1) : SubSeq(s, i, i + Len(sub) - 1) = sub

\* The strings of at most n bytes over the alphabet A.
RECURSIVE StrUpTo(_, _)
StrUpTo(A, n) ==
    IF n = 0 THEN {<<>>}
    ELSE LET S == StrUpTo(A, n - 1)
         IN  S \cup {<<c>> \o s : c \in A, s \in {t \in S : Len(t) = n - 1}}

----------------------------------------------------------------------------
(* The tree model (package sx): atoms and cons pairs.                      *)

Nil == [kind |-> "nil", val |-> <<>>]

String(v) == [kind |-> "string", val |-> v]

\* A number is held as its canonical decimal text, which is all the encoder reads.
Number(v) == [kind |-> "number", val |-> v]

Symbol(v) == [kind |-> "symbol", val |-> v]

Cons(a, d) == [kind |-> "pair", car |-> a, cdr |-> d]

IsPair(o) == o.kind = "pair"

IsNil(o) == o.kind = "nil"

\* sx.GetPair: Nil is the nil *sx.Pair and counts as a pair.
GetPair(o) == o.kind \in {"pair", "nil"}

\* (*Pair).Car and (*Pair).Cdr are Nil on the nil pair.
Car(p) == IF IsPair(p) THEN p.car ELSE Nil

Cdr(p) == IF IsPair(p) THEN p.cdr ELSE Nil

\* (*Pair).Tail: the cdr when it is a pair, Nil otherwise.
PairTail(p) == IF IsPair(p) /\ IsPair(p.cdr) THEN p.cdr ELSE Nil

RECURSIVE MakeList(_)
MakeList(objs) ==
    IF objs = <<>> THEN Nil ELSE Cons(Head(objs), MakeList(Tail(objs)))

\* (*Pair).Values: the cars of the list, in order.
RECURSIVE Values(_)
Values(p) == IF IsPair(p) THEN <<p.car>> \o Values(PairTail(p)) ELSE <<>>

\* Object.GoString of an atom: its plain text.
GoString(o) == IF o.kind \in {"string", "number", "symbol"} THEN o.val ELSE <<>>

----------------------------------------------------------------------------
(* The output sink (io.Writer).  It accepts every write before its         *)
(* failAt-th and fails that one and every later one; a failing write       *)
(* takes at most keep bytes and returns an error naming the write.         *)
(* failAt = 0 is a sink that never fails.  Error 0 is Go's nil.            *)

NoError == 0

NewSink(failAt, keep) ==
    [data |-> <<>>, calls |-> 0, failAt |-> failAt, keep |-> keep]

\* io.WriteString(w, s): the sink after the write, the bytes taken, the error.
WriteString(w, s) ==
    LET c == w.calls + 1
    IN  IF w.failAt # 0 /\ c >= w.failAt
        THEN [w   |-> [w EXCEPT !.calls = c, !.data = @ \o Take(s, w.keep)],
              l   |-> Min(w.keep, Len(s)),
              err |-> c]
        ELSE [w   |-> [w EXCEPT !.calls = c, !.data = @ \o s],
              l   |-> Len(s),
              err |-> NoError]

\* The writes of one Replacer.WriteString: piece by piece, up to the first error.
RECURSIVE WriteChunks(_, _, _)
WriteChunks(w, chunks, n) ==
    IF chunks = <<>> THEN [w |-> w, l |-> n, err |-> NoError]
    ELSE LET r == WriteString(w, Head(chunks))
         IN  IF r.err # NoError THEN [w |-> r.w, l |-> n + r.l, err |-> r.err]
             ELSE WriteChunks(r.w, Tail(chunks), n + r.l)

----------------------------------------------------------------------------
(* printer.go                                                              *)

NewPrinter(w) == [w |-> w, length |-> 0, err |-> NoError]

\* printString that writes whatever came before.
printString_unchecked(pr, s) ==
    LET r == WriteString(pr.w, s)
    IN  [w |-> r.w, length |-> pr.length + r.l, err |-> r.err]

printString(pr, s) ==
    IF pr.err = NoError
    THEN LET r == WriteString(pr.w, s)
         IN  [w |-> r.w, length |-> pr.length + r.l, err |-> r.err]
    ELSE pr

RECURSIVE printStringsLoop(_, _)
printStringsLoop(pr, sl) ==
    IF sl = <<>> THEN pr
    ELSE LET r  == WriteString(pr.w, Head(sl))
             p1 == [w |-> r.w, length |-> pr.length + r.l, err |-> pr.err]
         IN  IF r.err # NoError THEN [p1 EXCEPT !.err = r.err]
             ELSE printStringsLoop(p1, Tail(sl))

printStrings(pr, sl) == IF pr.err = NoError THEN printStringsLoop(pr, sl) ELSE pr

htmlQuot == <<"&", "q", "u", "o", "t", ";">>

htmlAmp == <<"&", "a", "m", "p", ";">>

\* U+FFFD in UTF-8.
htmlNull == <<"xef", "xbf", "xbd">>

htmlLt == <<"&", "l", "t", ";">>

htmlGt == <<"&", "g", "t", ";">>

htmlEscapes ==
    [b \in {"&", "<", ">", "\"", "NUL"} |->
        CASE b = "&"   -> htmlAmp
          [] b = "<"   -> htmlLt
          [] b = ">"   -> htmlGt
          [] b = "\""  -> htmlQuot
          [] b = "NUL" -> htmlNull]

\* htmlEscaper.WriteString: the pieces a byte-to-string Replacer writes for s[i..],
\* where s[last+1..i-1] is the pending unreplaced run.
RECURSIVE htmlEscaperChunks(_, _, _)
htmlEscaperChunks(s, i, last) ==
    IF i > Len(s)
    THEN IF last # Len(s) THEN <<SubSeq(s, last + 1, Len(s))>> ELSE <<>>
    ELSE IF s[i] \notin DOMAIN htmlEscapes
         THEN htmlEscaperChunks(s, i + 1, last)
         ELSE (IF last # i - 1 THEN <<SubSeq(s, last + 1, i - 1)>> ELSE <<>>)
              \o <<htmlEscapes[s[i]]>>
              \o htmlEscaperChunks(s, i + 1, i)

\* printHTML that forgets the escaper.
printHTML_unescaped(pr, s) == printString(pr, s)

printHTML(pr, s) ==
    IF pr.err = NoError
    THEN LET r == WriteChunks(pr.w, htmlEscaperChunks(s, 1, 0), 0)
         IN  [w |-> r.w, length |-> pr.length + r.l, err |-> r.err]
    ELSE pr

\* commentEscaper.WriteString: a single-pattern Replacer ("--" by "-&#45;") finds the
\* leftmost match, writes the text before it and the replacement, goes on behind the
\* match, and at last writes the rest.
commentMinus == <<"-", "&", "#", "4", "5", ";">>

RECURSIVE commentEscaperChunks(_)
commentEscaperChunks(s) ==
    IF \E i \in 1..(Len(s) - 1) : s[i] = "-" /\ s[i + 1] = "-"
    THEN LET m == CHOOSE i \in 1..(Len(s) - 1) :
                      /\ s[i] = "-" /\ s[i + 1] = "-"
                      /\ \A j \in 1..(i - 1) : ~(s[j] = "-" /\ s[j + 1] = "-")
         IN  <<SubSeq(s, 1, m - 1), commentMinus>> \o commentEscaperChunks(Drop(s, m + 1))
    ELSE <<s>>

\* printComment that forgets the escaper.
printComment_unescaped(pr, s) == printString(pr, s)

printComment(pr, s) ==
    IF pr.err = NoError
    THEN LET r == WriteChunks(pr.w, commentEscaperChunks(s), 0)
         IN  [w |-> r.w, length |-> pr.length + r.l, err |-> r.err]
    ELSE pr

\* printAttributeValue, from byte i on, with s[last+1..i-1] not yet written.
RECURSIVE printAttributeValueLoop(_, _, _, _)
printAttributeValueLoop(pr, s, i, last) ==
    IF i > Len(s) THEN printString(pr, Drop(s, last))
    ELSE IF s[i] \in {"NUL", "\"", "&"}
         THEN LET html == CASE s[i] = "NUL" -> htmlNull
                            [] s[i] = "\""  -> htmlQuot
                            [] s[i] = "&"   -> htmlAmp
              IN  printAttributeValueLoop(
                      printStrings(pr, <<SubSeq(s, last + 1, i - 1), html>>), s, i + 1, i)
         ELSE printAttributeValueLoop(pr, s, i + 1, last)

\* printAttributeValue that writes the value as it is.
printAttributeValue_raw(pr, s) == printString(pr, s)

printAttributeValue(pr, s) == printAttributeValueLoop(pr, s, 1, 0)

Digits == {"0", "1", "2", "3", "4", "5", "6", "7", "8", "9"}

LowerLetters ==
    {"a", "b", "c", "d", "e", "f", "g", "h", "i", "j", "k", "l", "m",
     "n", "o", "p", "q", "r", "s", "t", "u", "v", "w", "x", "y", "z"}

UpperLetters ==
    {"A", "B", "C", "D", "E", "F", "G", "H", "I", "J", "K", "L", "M",
     "N", "O", "P", "Q", "R", "S", "T", "U", "V", "W", "X", "Y", "Z"}

isHex(ch) ==
    ch \in Digits \cup {"a", "b", "c", "d", "e", "f"} \cup {"A", "B", "C", "D", "E", "F"}

\* fmt's %02x of the bytes the model uses that urlEscape may encode.
hex02x ==
    [b \in {"NUL", "\t", "\n", "\r", " ", "\"", "%", "'", "<", ">", "xc3", "x84"} |->
        CASE b = "NUL" -> <<"0", "0">>
          [] b = "\t"  -> <<"0", "9">>
          [] b = "\n"  -> <<"0", "a">>
          [] b = "\r"  -> <<"0", "d">>
          [] b = " "   -> <<"2", "0">>
          [] b = "\""  -> <<"2", "2">>
          [] b = "%"   -> <<"2", "5">>
          [] b = "'"   -> <<"2", "7">>
          [] b = "<"   -> <<"3", "c">>
          [] b = ">"   -> <<"3", "e">>
          [] b = "xc3" -> <<"c", "3">>
          [] b = "x84" -> <<"8", "4">>]

\* urlKeeps that takes no "%" for the start of an escape: every "%" is encoded.
urlKeeps_noEscape(s, i) ==
    LET ch == s[i]
    IN  \/ ch \in {"!", "#", "$", "&", "*", "+", ",", "/", ":", ";", "=", "?", "@", "[", "]"}
        \/ ch \in {"-", ".", "_", "~"}
        \/ ch # "%" /\ ch \in LowerLetters \cup Digits \cup UpperLetters

\* urlKeeps that wants a byte more behind the two hex digits of an escape.
urlKeeps_shortOfEnd(s, i) ==
    LET ch == s[i]
    IN  \/ ch \in {"!", "#", "$", "&", "*", "+", ",", "/", ":", ";", "=", "?", "@", "[", "]"}
        \/ ch \in {"-", ".", "_", "~"}
        \/ ch = "%" /\ i + 3 <= Len(s) /\ isHex(s[i + 1]) /\ isHex(s[i + 2])
        \/ ch # "%" /\ ch \in LowerLetters \cup Digits \cup UpperLetters

\* Whether urlEscape copies byte i of s unchanged.
urlKeeps(s, i) ==
    LET ch == s[i]
    IN  \/ ch \in {"!", "#", "$", "&", "*", "+", ",", "/", ":", ";", "=", "?", "@", "[", "]"}
        \/ ch \in {"-", ".", "_", "~"}
        \/ ch = "%" /\ i + 2 <= Len(s) /\ isHex(s[i + 1]) /\ isHex(s[i + 2])
        \/ ch # "%" /\ ch \in LowerLetters \cup Digits \cup UpperLetters

RECURSIVE urlEscapeFrom(_, _)
urlEscapeFrom(s, i) ==
    IF i > Len(s) THEN <<>>
    ELSE (IF urlKeeps(s, i) THEN <<s[i]>> ELSE <<"%">> \o hex02x[s[i]])
         \o urlEscapeFrom(s, i + 1)

urlEscape(s) == urlEscapeFrom(s, 1)

----------------------------------------------------------------------------
(* sxhtml.go                                                               *)
(* A symbol is held by its name: sym.GetValue() and sym.String() are both  *)
(* the name for the names of tags and attributes.                          *)

nameCDATA == <<"@", "C">>

nameNoEscape == <<"@", "H">>

nameListSplice == <<"@", "L">>

nameInlineComment == <<"@", "@">>

nameBlockComment == <<"@", "@", "@">>

nameDoctype == <<"@", "@", "@", "@">>

urlAttrs ==
    {<<"a", "c", "t", "i", "o", "n">>, <<"c", "i", "t", "e">>, <<"d", "a", "t", "a">>, <<"f", "o", "r", "m", "a", "c", "t", "i", "o", "n">>,
     <<"h", "r", "e", "f">>, <<"i", "t", "e", "m", "i", "d">>, <<"i", "t", "e", "m", "p", "r", "o", "p">>, <<"i", "t", "e", "m", "t", "y", "p", "e">>,
     <<"p", "i", "n", "g">>, <<"p", "o", "s", "t", "e", "r">>, <<"s", "r", "c">>}

allNLTags ==
    {<<"h", "e", "a", "d">>, <<"l", "i", "n", "k">>, <<"m", "e", "t", "a">>, <<"t", "i", "t", "l", "e">>,
     <<"d", "i", "v">>}

nlTags ==
    {<<"@", "C">>, <<"h", "e", "a", "d">>, <<"l", "i", "n", "k">>, <<"m", "e", "t", "a">>,
     <<"t", "i", "t", "l", "e">>, <<"s", "c", "r", "i", "p", "t">>, <<"b", "o", "d", "y">>, <<"a", "r", "t", "i", "c", "l", "e">>,
     <<"d", "e", "t", "a", "i", "l", "s">>, <<"d", "i", "v">>, <<"h", "e", "a", "d", "e", "r">>, <<"f", "o", "o", "t", "e", "r">>,
     <<"f", "o", "r", "m">>, <<"m", "a", "i", "n">>, <<"s", "u", "m", "m", "a", "r", "y">>, <<"h", "1">>,
     <<"h", "2">>, <<"h", "3">>, <<"h", "4">>, <<"h", "5">>,
     <<"h", "6">>, <<"l", "i">>, <<"o", "l">>, <<"u", "l">>,
     <<"d", "d">>, <<"d", "t">>, <<"d", "l">>, <<"t", "a", "b", "l", "e">>,
     <<"t", "h", "e", "a", "d">>, <<"t", "b", "o", "d", "y">>, <<"t", "r">>, <<"s", "e", "c", "t", "i", "o", "n">>,
     <<"i", "n", "p", "u", "t">>}

ignoreEmptyTags ==
    {<<"d", "i", "v">>, <<"s", "p", "a", "n">>, <<"c", "o", "d", "e">>, <<"k", "b", "d">>,
     <<"p">>, <<"s", "a", "m", "p">>}

\* tags.IsVoid of t73f.de/r/webs/htmls/tags: the void elements the README names.
IsVoid(name) ==
    name \in
    {<<"a", "r", "e", "a">>, <<"b", "a", "s", "e">>, <<"b", "r">>, <<"c", "o", "l">>,
     <<"e", "m", "b", "e", "d">>, <<"h", "r">>, <<"i", "m", "g">>, <<"i", "n", "p", "u", "t">>,
     <<"l", "i", "n", "k">>, <<"m", "e", "t", "a">>, <<"s", "o", "u", "r", "c", "e">>, <<"t", "r", "a", "c", "k">>,
     <<"w", "b", "r">>}

\* The byte values of the bytes that occur in attribute names, for sort.Strings.
byteValue ==
    " " :> 32 @@ "-" :> 45 @@ "." :> 46 @@ "0" :> 48 @@ "1" :> 49 @@ "2" :> 50 @@
    "3" :> 51 @@ "4" :> 52 @@ "5" :> 53 @@ "6" :> 54 @@ "7" :> 55 @@ "8" :> 56 @@
    "9" :> 57 @@ ":" :> 58 @@ "@" :> 64 @@ "A" :> 65 @@ "B" :> 66 @@ "C" :> 67 @@
    "D" :> 68 @@ "E" :> 69 @@ "F" :> 70 @@ "G" :> 71 @@ "H" :> 72 @@ "I" :> 73 @@
    "J" :> 74 @@ "K" :> 75 @@ "L" :> 76 @@ "M" :> 77 @@ "N" :> 78 @@ "O" :> 79 @@
    "P" :> 80 @@ "Q" :> 81 @@ "R" :> 82 @@ "S" :> 83 @@ "T" :> 84 @@ "U" :> 85 @@
    "V" :> 86 @@ "W" :> 87 @@ "X" :> 88 @@ "Y" :> 89 @@ "Z" :> 90 @@ "_" :> 95 @@
    "a" :> 97 @@ "b" :> 98 @@ "c" :> 99 @@ "d" :> 100 @@ "e" :> 101 @@ "f" :> 102 @@
    "g" :> 103 @@ "h" :> 104 @@ "i" :> 105 @@ "j" :> 106 @@ "k" :> 107 @@ "l" :> 108 @@
    "m" :> 109 @@ "n" :> 110 @@ "o" :> 111 @@ "p" :> 112 @@ "q" :> 113 @@ "r" :> 114 @@
    "s" :> 115 @@ "t" :> 116 @@ "u" :> 117 @@ "v" :> 118 @@ "w" :> 119 @@ "x" :> 120 @@
    "y" :> 121 @@ "z" :> 122

\* Lexicographic byte order of two strings, as sort.Strings compares them.
RECURSIVE StrLess(_, _)
StrLess(a, b) ==
    IF b = <<>> THEN FALSE
    ELSE IF a = <<>> THEN TRUE
    ELSE IF Head(a) # Head(b) THEN byteValue[Head(a)] < byteValue[Head(b)]
    ELSE StrLess(Tail(a), Tail(b))

\* sort.Strings of a set of keys.
\* The keys in an order that is not sorted.
RECURSIVE SortStrings_unsorted(_)
SortStrings_unsorted(K) ==
    IF K = {} THEN <<>>
    ELSE LET m == CHOOSE k \in K : \A o \in K \ {k} : StrLess(o, k)
         IN  <<m>> \o SortStrings_unsorted(K \ {m})

RECURSIVE SortStrings(_)
SortStrings(K) ==
    IF K = {} THEN <<>>
    ELSE LET m == CHOOSE k \in K : \A o \in K \ {k} : StrLess(k, o)
         IN  <<m>> \o SortStrings(K \ {m})

\* strings.TrimSpace on the white space the model uses.
WhiteSpace == {" ", "\t", "\n", "\r"}

RECURSIVE TrimLeft(_)
TrimLeft(s) == IF s # <<>> /\ Head(s) \in WhiteSpace THEN TrimLeft(Tail(s)) ELSE s

RECURSIVE TrimRight(_)
TrimRight(s) ==
    IF s # <<>> /\ s[Len(s)] \in WhiteSpace THEN TrimRight(SubSeq(s, 1, Len(s) - 1)) ELSE s

TrimSpace(s) == TrimRight(TrimLeft(s))

\* strings.Cut(name, ":"): the index of the first ":", or 0.
CutColon(name) ==
    IF \E i \in 1..Len(name) : name[i] = ":"
    THEN CHOOSE i \in 1..Len(name) : name[i] = ":" /\ \A j \in 1..(i - 1) : name[j] # ":"
    ELSE 0

attrPlain == "attrPlain"

attrURL == "attrURL"

attrCSS == "attrCSS"

attrJS == "attrJS"

\* The classification that looks for url, uri and src before it looks for the prefix on.
attrTypeOfName_urlFirst(name) ==
    IF name \in urlAttrs THEN attrURL
    ELSE IF name = <<"s", "t", "y", "l", "e">> THEN attrCSS
    ELSE IF \/ Contains(name, <<"u", "r", "l">>)
            \/ Contains(name, <<"u", "r", "i">>)
            \/ Contains(name, <<"s", "r", "c">>) THEN attrURL
    ELSE IF HasPrefix(name, <<"o", "n">>) THEN attrJS
    ELSE attrPlain

\* The classification of a name that has lost its data- or namespace prefix.
attrTypeOfName(name) ==
    IF name \in urlAttrs THEN attrURL
    ELSE IF name = <<"s", "t", "y", "l", "e">> THEN attrCSS
    ELSE IF HasPrefix(name, <<"o", "n">>) THEN attrJS
    ELSE IF \/ Contains(name, <<"u", "r", "l">>)
            \/ Contains(name, <<"u", "r", "i">>)
            \/ Contains(name, <<"s", "r", "c">>) THEN attrURL
    ELSE attrPlain

getAttributeType(sym) ==
    LET name == sym.val
        c    == CutColon(name)
    IN  IF HasPrefix(name, <<"d", "a", "t", "a", "-">>) THEN attrTypeOfName(Drop(name, 5))
        ELSE IF c # 0
             THEN IF Take(name, c - 1) = <<"x", "m", "l", "n", "s">> THEN attrURL
                  ELSE attrTypeOfName(Drop(name, c))
        ELSE attrTypeOfName(name)

\* getAttributeValue that escapes no value.
getAttributeValue_plain(sym, value) == value

getAttributeValue(sym, value) ==
    IF getAttributeType(sym) = attrURL THEN urlEscape(value) ELSE value

\* The loop body without the test for an earlier entry of the key: the last entry wins.
attrEntry_lastWins(st, val) ==
    IF ~GetPair(val) THEN st
    ELSE LET sym == Car(val)
         IN  IF sym.kind # "symbol" THEN st
             ELSE LET key == sym.val
                      cdr == Cdr(val)
                      obj == IF GetPair(cdr) THEN Car(cdr) ELSE cdr
                      st1 == [st EXCEPT !.found = @ \cup {key}]
                  IN  IF ~IsNil(cdr)
                      THEN IF obj.kind \in {"string", "symbol", "number"}
                           THEN [st1 EXCEPT !.a =
                                    (key :> TrimSpace(getAttributeValue(sym, obj.val))) @@ @]
                           ELSE st1
                      ELSE [st1 EXCEPT !.a = (key :> <<>>) @@ @,
                                       !.empty = @ \cup {key}]

\* The loop body that records a key only once it has a usable value.
attrEntry_noTombstone(st, val) ==
    IF ~GetPair(val) THEN st
    ELSE LET sym == Car(val)
         IN  IF sym.kind # "symbol" THEN st
             ELSE LET key == sym.val
                      cdr == Cdr(val)
                      obj == IF GetPair(cdr) THEN Car(cdr) ELSE cdr
                      st1 == [st EXCEPT !.found = @ \cup {key}]
                  IN  IF key \in st.found THEN st
                      ELSE IF ~IsNil(cdr)
                           THEN IF obj.kind \in {"string", "symbol", "number"}
                                THEN [st1 EXCEPT !.a =
                                         (key :> TrimSpace(getAttributeValue(sym, obj.val))) @@ @]
                                ELSE st
                           ELSE [st1 EXCEPT !.a = (key :> <<>>) @@ @,
                                            !.empty = @ \cup {key}]

\* The loop body that takes a value from strings alone.
attrEntry_stringsOnly(st, val) ==
    IF ~GetPair(val) THEN st
    ELSE LET sym == Car(val)
         IN  IF sym.kind # "symbol" THEN st
             ELSE LET key == sym.val
                      cdr == Cdr(val)
                      obj == IF GetPair(cdr) THEN Car(cdr) ELSE cdr
                      st1 == [st EXCEPT !.found = @ \cup {key}]
                  IN  IF key \in st.found THEN st
                      ELSE IF ~IsNil(cdr)
                           THEN IF obj.kind \in {"string"}
                                THEN [st1 EXCEPT !.a =
                                         (key :> TrimSpace(getAttributeValue(sym, obj.val))) @@ @]
                                ELSE st1
                           ELSE [st1 EXCEPT !.a = (key :> <<>>) @@ @,
                                            !.empty = @ \cup {key}]

\* One round of the loop of writeAttributes over the entries: st holds the maps
\* found, empty and a (a as a function on its keys).
attrEntry(st, val) ==
    IF ~GetPair(val) THEN st
    ELSE LET sym == Car(val)
         IN  IF sym.kind # "symbol" THEN st
             ELSE LET key == sym.val
                      cdr == Cdr(val)
                      obj == IF GetPair(cdr) THEN Car(cdr) ELSE cdr
                      st1 == [st EXCEPT !.found = @ \cup {key}]
                  IN  IF key \in st.found THEN st
                      ELSE IF ~IsNil(cdr)
                           THEN IF obj.kind \in {"string", "symbol", "number"}
                                THEN [st1 EXCEPT !.a =
                                         (key :> TrimSpace(getAttributeValue(sym, obj.val))) @@ @]
                                ELSE st1
                           ELSE [st1 EXCEPT !.a = (key :> <<>>) @@ @,
                                            !.empty = @ \cup {key}]

RECURSIVE attrEntries(_, _)
attrEntries(st, vals) ==
    IF vals = <<>> THEN st ELSE attrEntries(attrEntry(st, Head(vals)), Tail(vals))

RECURSIVE printAttrs(_, _, _)
printAttrs(pr, st, keys) ==
    IF keys = <<>> THEN pr
    ELSE LET key == Head(keys)
             p1  == printStrings(pr, <<<<" ">>, key>>)
             p2  == IF key \notin st.empty
                    THEN printString(
                             printAttributeValue(printString(p1, <<"=", "\"">>), st.a[key]),
                             <<"\"">>)
                    ELSE p1
         IN  printAttrs(p2, st, Tail(keys))

writeAttributes(enc, attrs) ==
    LET st   == attrEntries([found |-> {}, empty |-> {}, a |-> <<>>], Values(attrs))
        keys == SortStrings(DOMAIN st.a)
    IN  [enc EXCEPT !.pr = printAttrs(@, st, keys)]

\* getAttributes that takes the first list of pairs among all items behind the tag.
RECURSIVE getAttributes_anywhere(_)
getAttributes_anywhere(lst) ==
    IF ~IsPair(lst) THEN Nil
    ELSE LET pair == Car(lst)
         IN  IF GetPair(pair) /\ ~IsNil(pair) /\ GetPair(Car(pair)) THEN pair
             ELSE getAttributes_anywhere(PairTail(lst))

getAttributes(lst) ==
    LET pair == Car(lst)
    IN  IF GetPair(pair) /\ ~IsNil(pair) /\ GetPair(Car(pair)) THEN pair ELSE Nil

\* ignoreEmptyStrings that takes every string for an empty one.
RECURSIVE ignoreEmptyStrings_anyString(_)
ignoreEmptyStrings_anyString(elem) ==
    IF ~IsPair(elem) THEN TRUE
    ELSE IF elem.car.kind # "string" THEN FALSE
    ELSE ignoreEmptyStrings_anyString(PairTail(elem))

\* ignoreEmptyStrings(elems) == nil
RECURSIVE ignoreEmptyStrings(_)
ignoreEmptyStrings(elem) ==
    IF ~IsPair(elem) THEN TRUE
    ELSE IF elem.car.kind # "string" \/ elem.car.val # <<>> THEN FALSE
    ELSE ignoreEmptyStrings(PairTail(elem))

\* The loop of writeNoEscape that escapes its strings as text and writes numbers too.
RECURSIVE writeNoEscapeLoop_escaped(_, _)
writeNoEscapeLoop_escaped(pr, objs) ==
    IF objs = <<>> THEN pr
    ELSE writeNoEscapeLoop_escaped(
             IF Head(objs).kind \in {"string", "number"} THEN printHTML(pr, Head(objs).val) ELSE pr,
             Tail(objs))

RECURSIVE writeNoEscapeLoop(_, _)
writeNoEscapeLoop(pr, objs) ==
    IF objs = <<>> THEN pr
    ELSE writeNoEscapeLoop(
             IF Head(objs).kind = "string" THEN printString(pr, Head(objs).val) ELSE pr,
             Tail(objs))

writeNoEscape(enc, elems) == [enc EXCEPT !.pr = writeNoEscapeLoop(@, Values(elems))]

writeCDATA(enc, elems) ==
    LET e1 == [enc EXCEPT !.pr = printString(@, <<"<", "!", "[", "C", "D", "A", "T", "A", "[">>)]
        e2 == writeNoEscape(e1, elems)
    IN  [e2 EXCEPT !.pr = printString(@, <<"]", "]", ">">>)]

printCommentObj(pr, obj) == printComment(pr, GoString(obj))

RECURSIVE writeCommentLoop(_, _, _)
writeCommentLoop(pr, sep, objs) ==
    IF objs = <<>> THEN pr
    ELSE writeCommentLoop(printCommentObj(printString(pr, sep), Head(objs)), sep, Tail(objs))

commentOpen == <<"<", "!", "-", "-">>

writeComment(enc, elems) ==
    [enc EXCEPT !.pr =
        printString(writeCommentLoop(printString(@, commentOpen), <<" ">>, Values(elems)),
                    <<" ", "-", "-", ">">>)]

writeCommentML(enc, elems) ==
    [enc EXCEPT !.pr =
        printString(writeCommentLoop(printString(@, commentOpen), <<"\n">>, Values(elems)),
                    <<"\n", "-", "-", ">", "\n">>)]

doctypeText ==
    <<"<", "!", "D", "O", "C", "T", "Y", "P", "E", " ", "h", "t", "m", "l", ">", "\n">>

RECURSIVE generate(_, _)
RECURSIVE generateList(_, _)
RECURSIVE writeTag(_, _, _)

writeDoctype(enc, elems) ==
    generateList([enc EXCEPT !.pr = printString(@, doctypeText)], elems)

\* generate that leaves last-was-tag alone where it writes nothing for an atom.
generate_keepLast(enc, obj) ==
    CASE obj.kind \in {"string", "number"} ->
            [enc EXCEPT !.pr = printHTML(@, obj.val), !.lastWasTag = FALSE]
      [] obj.kind = "nil" -> enc
      [] obj.kind = "pair" ->
            IF obj.car.kind = "symbol"
            THEN LET sym  == obj.car
                     tail == PairTail(obj)
                     s    == sym.val
                 IN  IF s[1] = "@"
                     THEN CASE s = nameCDATA ->
                                 [writeCDATA(enc, tail) EXCEPT !.lastWasTag = FALSE]
                            [] s = nameNoEscape ->
                                 [writeNoEscape(enc, tail) EXCEPT !.lastWasTag = FALSE]
                            [] s = nameInlineComment ->
                                 [writeComment(enc, tail) EXCEPT !.lastWasTag = FALSE]
                            [] s = nameBlockComment ->
                                 [writeCommentML(enc, tail) EXCEPT !.lastWasTag = FALSE]
                            [] s = nameListSplice ->
                                 [generateList(enc, tail) EXCEPT !.lastWasTag = FALSE]
                            [] s = nameDoctype ->
                                 [writeDoctype(enc, tail) EXCEPT !.lastWasTag = FALSE]
                            [] OTHER -> writeTag(enc, sym, tail)
                     ELSE writeTag(enc, sym, tail)
            ELSE enc
      [] OTHER -> enc

generate(enc, obj) ==
    CASE obj.kind \in {"string", "number"} ->
            [enc EXCEPT !.pr = printHTML(@, obj.val), !.lastWasTag = FALSE]
      [] obj.kind = "nil" -> [enc EXCEPT !.lastWasTag = FALSE]
      [] obj.kind = "pair" ->
            IF obj.car.kind = "symbol"
            THEN LET sym  == obj.car
                     tail == PairTail(obj)
                     s    == sym.val
                 IN  IF s[1] = "@"
                     THEN CASE s = nameCDATA ->
                                 [writeCDATA(enc, tail) EXCEPT !.lastWasTag = FALSE]
                            [] s = nameNoEscape ->
                                 [writeNoEscape(enc, tail) EXCEPT !.lastWasTag = FALSE]
                            [] s = nameInlineComment ->
                                 [writeComment(enc, tail) EXCEPT !.lastWasTag = FALSE]
                            [] s = nameBlockComment ->
                                 [writeCommentML(enc, tail) EXCEPT !.lastWasTag = FALSE]
                            [] s = nameListSplice ->
                                 [generateList(enc, tail) EXCEPT !.lastWasTag = FALSE]
                            [] s = nameDoctype ->
                                 [writeDoctype(enc, tail) EXCEPT !.lastWasTag = FALSE]
                            [] OTHER -> writeTag(enc, sym, tail)
                     ELSE writeTag(enc, sym, tail)
            ELSE enc
      [] OTHER -> [enc EXCEPT !.lastWasTag = FALSE]

generateList(enc, lst) ==
    IF ~IsPair(lst) THEN enc ELSE generateList(generate(enc, lst.car), PairTail(lst))

\* writeTag without the test for void elements.
writeTag_noVoid(enc, sym, elems) ==
    LET symVal      == sym.val
        withNewline == enc.gen.withNewline /\ symVal \in nlTags
        tagName     == sym.val
        e1 == [enc EXCEPT !.pr =
                  IF withNewline /\ (~enc.lastWasTag \/ symVal \in allNLTags)
                  THEN printStrings(@, <<<<"\n", "<">>, tagName>>)
                  ELSE printStrings(@, <<<<"<">>, tagName>>)]
        attrs == getAttributes(elems)
        e2 == IF ~IsNil(attrs) THEN writeAttributes(e1, attrs) ELSE e1
        rest == IF ~IsNil(attrs) THEN PairTail(elems) ELSE elems
        e3 == [e2 EXCEPT !.pr = printString(@, <<">">>)]
        e4 == generateList(e3, rest)
        e5 == [e4 EXCEPT !.pr =
                  IF withNewline
                  THEN printStrings(@, <<<<"<", "/">>, tagName, <<">", "\n">>>>)
                  ELSE printStrings(@, <<<<"<", "/">>, tagName, <<">">>>>)]
    IN  IF symVal \in ignoreEmptyTags /\ ignoreEmptyStrings(elems) THEN enc
        ELSE [e5 EXCEPT !.lastWasTag = withNewline]

\* writeTag with the emptiness test on the children behind the attribute list.
writeTag_testBehindAttrs(enc, sym, elems) ==
    LET symVal      == sym.val
        withNewline == enc.gen.withNewline /\ symVal \in nlTags
        tagName     == sym.val
        e1 == [enc EXCEPT !.pr =
                  IF withNewline /\ (~enc.lastWasTag \/ symVal \in allNLTags)
                  THEN printStrings(@, <<<<"\n", "<">>, tagName>>)
                  ELSE printStrings(@, <<<<"<">>, tagName>>)]
        attrs == getAttributes(elems)
        e2 == IF ~IsNil(attrs) THEN writeAttributes(e1, attrs) ELSE e1
        rest == IF ~IsNil(attrs) THEN PairTail(elems) ELSE elems
        e3 == [e2 EXCEPT !.pr = printString(@, <<">">>)]
        e4 == generateList(e3, rest)
        e5 == [e4 EXCEPT !.pr =
                  IF withNewline
                  THEN printStrings(@, <<<<"<", "/">>, tagName, <<">", "\n">>>>)
                  ELSE printStrings(@, <<<<"<", "/">>, tagName, <<">">>>>)]
    IN  IF symVal \in ignoreEmptyTags /\ ignoreEmptyStrings(rest) THEN enc
        ELSE IF IsVoid(symVal) THEN [e3 EXCEPT !.lastWasTag = withNewline]
        ELSE [e5 EXCEPT !.lastWasTag = withNewline]

\* writeTag that starts every newline-triggering tag on a new line.
writeTag_lineAlways(enc, sym, elems) ==
    LET symVal      == sym.val
        withNewline == enc.gen.withNewline /\ symVal \in nlTags
        tagName     == sym.val
        e1 == [enc EXCEPT !.pr =
                  IF withNewline
                  THEN printStrings(@, <<<<"\n", "<">>, tagName>>)
                  ELSE printStrings(@, <<<<"<">>, tagName>>)]
        attrs == getAttributes(elems)
        e2 == IF ~IsNil(attrs) THEN writeAttributes(e1, attrs) ELSE e1
        rest == IF ~IsNil(attrs) THEN PairTail(elems) ELSE elems
        e3 == [e2 EXCEPT !.pr = printString(@, <<">">>)]
        e4 == generateList(e3, rest)
        e5 == [e4 EXCEPT !.pr =
                  IF withNewline
                  THEN printStrings(@, <<<<"<", "/">>, tagName, <<">", "\n">>>>)
                  ELSE printStrings(@, <<<<"<", "/">>, tagName, <<">">>>>)]
    IN  IF symVal \in ignoreEmptyTags /\ ignoreEmptyStrings(elems) THEN enc
        ELSE IF IsVoid(symVal) THEN [e3 EXCEPT !.lastWasTag = withNewline]
        ELSE [e5 EXCEPT !.lastWasTag = withNewline]

\* writeTag that leaves out empty elements only while the newline option is off.
writeTag_keepsEmptyOnLines(enc, sym, elems) ==
    LET symVal      == sym.val
        withNewline == enc.gen.withNewline /\ symVal \in nlTags
        tagName     == sym.val
        e1 == [enc EXCEPT !.pr =
                  IF withNewline /\ (~enc.lastWasTag \/ symVal \in allNLTags)
                  THEN printStrings(@, <<<<"\n", "<">>, tagName>>)
                  ELSE printStrings(@, <<<<"<">>, tagName>>)]
        attrs == getAttributes(elems)
        e2 == IF ~IsNil(attrs) THEN writeAttributes(e1, attrs) ELSE e1
        rest == IF ~IsNil(attrs) THEN PairTail(elems) ELSE elems
        e3 == [e2 EXCEPT !.pr = printString(@, <<">">>)]
        e4 == generateList(e3, rest)
        e5 == [e4 EXCEPT !.pr =
                  IF withNewline
                  THEN printStrings(@, <<<<"<", "/">>, tagName, <<">", "\n">>>>)
                  ELSE printStrings(@, <<<<"<", "/">>, tagName, <<">">>>>)]
    IN  IF ~enc.gen.withNewline /\ symVal \in ignoreEmptyTags /\ ignoreEmptyStrings(elems) THEN enc
        ELSE IF IsVoid(symVal) THEN [e3 EXCEPT !.lastWasTag = withNewline]
        ELSE [e5 EXCEPT !.lastWasTag = withNewline]

writeTag(enc, sym, elems) ==
    LET symVal      == sym.val
        withNewline == enc.gen.withNewline /\ symVal \in nlTags
        tagName     == sym.val
        e1 == [enc EXCEPT !.pr =
                  IF withNewline /\ (~enc.lastWasTag \/ symVal \in allNLTags)
                  THEN printStrings(@, <<<<"\n", "<">>, tagName>>)
                  ELSE printStrings(@, <<<<"<">>, tagName>>)]
        attrs == getAttributes(elems)
        e2 == IF ~IsNil(attrs) THEN writeAttributes(e1, attrs) ELSE e1
        rest == IF ~IsNil(attrs) THEN PairTail(elems) ELSE elems
        e3 == [e2 EXCEPT !.pr = printString(@, <<">">>)]
        e4 == generateList(e3, rest)
        e5 == [e4 EXCEPT !.pr =
                  IF withNewline
                  THEN printStrings(@, <<<<"<", "/">>, tagName, <<">", "\n">>>>)
                  ELSE printStrings(@, <<<<"<", "/">>, tagName, <<">">>>>)]
    IN  IF symVal \in ignoreEmptyTags /\ ignoreEmptyStrings(elems) THEN enc
        ELSE IF IsVoid(symVal) THEN [e3 EXCEPT !.lastWasTag = withNewline]
        ELSE [e5 EXCEPT !.lastWasTag = withNewline]

NewEncoder(g, w) == [gen |-> g, pr |-> NewPrinter(w), lastWasTag |-> TRUE]

----------------------------------------------------------------------------
(* The Generator and its render calls.  gen is the Generator; call is the  *)
(* render call the caller makes on it (operation, argument, the sink it    *)
(* hands in); pc is "new" until the call is made and "done" when it has    *)
(* returned; myEncoder is the encoder of the call when it returned and     *)
(* ret the values the call returned.  log is a history variable: what the  *)
(* render calls made on the generator so far returned, oldest first.       *)

NewGenerator == [withNewline |-> FALSE]

\* A pointer to no object: the Form and the SelectElement of a caller that has none.
NilPointer == [kind |-> "nil pointer"]

HTMLCall(w, obj) == [op |-> "WriteHTML", obj |-> obj, w |-> w]

ListCall(w, lst) == [op |-> "WriteListHTML", obj |-> lst, w |-> w]

InitOver(Calls) ==
    /\ gen = NewGenerator
    /\ call \in Calls
    /\ pc = "new"
    /\ myEncoder = NewEncoder(NewGenerator, call.w)
    /\ ret = [n |-> 0, err |-> NoError]
    /\ log = <<>>
    /\ form = NilPointer
    /\ se = NilPointer

SetNewline ==
    /\ pc = "new"
    /\ gen' = [gen EXCEPT !.withNewline = TRUE]
    /\ UNCHANGED <<call, pc, myEncoder, ret, log, form, se>>

\* WriteHTML that goes on with the encoder the call before has left.
WriteHTML_continued ==
    /\ pc = "new"
    /\ call.op = "WriteHTML"
    /\ LET e == generate([myEncoder EXCEPT !.gen = gen, !.pr.w = call.w], call.obj)
       IN  /\ myEncoder' = e
           /\ ret' = [n |-> e.pr.length, err |-> e.pr.err]
           /\ log' = Append(log, [n |-> e.pr.length, err |-> e.pr.err])
    /\ pc' = "done"
    /\ UNCHANGED <<gen, call, form, se>>

WriteHTML ==
    /\ pc = "new"
    /\ call.op = "WriteHTML"
    /\ LET e == generate(NewEncoder(gen, call.w), call.obj)
       IN  /\ myEncoder' = e
           /\ ret' = [n |-> e.pr.length, err |-> e.pr.err]
           /\ log' = Append(log, [n |-> e.pr.length, err |-> e.pr.err])
    /\ pc' = "done"
    /\ UNCHANGED <<gen, call, form, se>>

\* The loop of WriteListHTML with last-was-tag set anew for every element of the list.
RECURSIVE generateEach_restart(_, _)
generateEach_restart(e, objs) ==
    IF objs = <<>> THEN e
    ELSE generateEach_restart(generate([e EXCEPT !.lastWasTag = TRUE], Head(objs)), Tail(objs))

RECURSIVE generateEach(_, _)
generateEach(e, objs) ==
    IF objs = <<>> THEN e ELSE generateEach(generate(e, Head(objs)), Tail(objs))

WriteListHTML ==
    /\ pc = "new"
    /\ call.op = "WriteListHTML"
    /\ LET e == generateEach(NewEncoder(gen, call.w), Values(call.obj))
       IN  /\ myEncoder' = e
           /\ ret' = [n |-> e.pr.length, err |-> e.pr.err]
           /\ log' = Append(log, [n |-> e.pr.length, err |-> e.pr.err])
    /\ pc' = "done"
    /\ UNCHANGED <<gen, call, form, se>>

Next == SetNewline \/ WriteHTML \/ WriteListHTML

----------------------------------------------------------------------------
(* What the last call wrote, and renderings on a sink that never fails.    *)

Written == myEncoder.pr.w.data

GoodSink == NewSink(0, 0)

Render(g, obj) == generate(NewEncoder(g, GoodSink), obj).pr.w.data

Slash == String(<<"/">>)

\* The list the tests render with WriteListHTML: (obj "/" obj).
Twice(obj) == MakeList(<<obj, Slash, obj>>)

Elem(name, children) == MakeList(<<Symbol(name)>> \o children)

----------------------------------------------------------------------------
(* Text content: string atoms at top level and as children of elements.    *)

MaxTextLen == 2

TextBytes == {"&", "<", ">", "\"", "NUL", "a", " "}

TextStrings == StrUpTo(TextBytes, MaxTextLen)

TextTags == {<<"b">>, <<"p">>, <<"l", "i">>}

TextInputs ==
    {String(s) : s \in TextStrings}
        \cup {Elem(t, <<String(s)>>) : t \in TextTags, s \in TextStrings}

TextCalls ==
    {HTMLCall(GoodSink, obj) : obj \in TextInputs}
        \cup {ListCall(GoodSink, Twice(obj)) : obj \in TextInputs}

SpecText == InitOver(TextCalls) /\ [][Next]_vars

\* The text-escaping rule, byte by byte.
EscapedByte(b) ==
    CASE b = "&"   -> <<"&", "a", "m", "p", ";">>
      [] b = "<"   -> <<"&", "l", "t", ";">>
      [] b = ">"   -> <<"&", "g", "t", ";">>
      [] b = "\""  -> <<"&", "q", "u", "o", "t", ";">>
      [] b = "NUL" -> <<"xef", "xbf", "xbd">>
      [] OTHER     -> <<b>>

EscapedText(s) == Concat([i \in 1..Len(s) |-> EscapedByte(s[i])])

\* The forms of the element (t "s") around its text, with and without line breaks.
Around(t, text) ==
    {pre \o <<"<">> \o t \o <<">">> \o text \o <<"<", "/">> \o t \o <<">">> \o post :
        pre \in {<<>>, <<"\n">>}, post \in {<<>>, <<"\n">>}}

IsTextElem(obj) ==
    /\ IsPair(obj) /\ obj.car.kind = "symbol" /\ obj.car.val \in TextTags
    /\ IsPair(obj.cdr) /\ obj.cdr.car.kind = "string" /\ obj.cdr.cdr = Nil

\* C1: a string atom rendered as element content, at top level or as the child of a
\* non-void tag, is written with & < > " and NUL replaced by &amp; &lt; &gt; &quot; and
\* U+FFFD, every other byte unchanged and in order; so no raw < > " or NUL is written for it.
C1_TextEscaped ==
    (pc = "done" /\ call.op = "WriteHTML") =>
        /\ call.obj.kind = "string" =>
              /\ Written = EscapedText(call.obj.val)
              /\ \A i \in 1..Len(Written) : Written[i] \notin {"<", ">", "\"", "NUL"}
        /\ (IsTextElem(call.obj) /\ ~(call.obj.car.val \in ignoreEmptyTags
                                       /\ call.obj.cdr.car.val = <<>>)) =>
              LET t    == call.obj.car.val
                  text == EscapedText(call.obj.cdr.car.val)
              IN  /\ Written \in Around(t, text)
                  /\ \A i \in 1..Len(text) : text[i] \notin {"<", ">", "\"", "NUL"}

C1_Witness ==
    /\ pc = "done"
    /\ call.op = "WriteHTML"
    /\ IsTextElem(call.obj)
    /\ call.obj.cdr.car.val = <<"<", "NUL">>
    /\ Written = <<"<", "b", ">", "&", "l", "t", ";", "xef", "xbf", "xbd", "<", "/", "b", ">">>

----------------------------------------------------------------------------
(* Failing sinks.                                                          *)

MaxFailAt == 10

MaxKeep == 1

FailSinks == {NewSink(f, k) : f \in 0..MaxFailAt, k \in 0..MaxKeep}

StrAB == String(<<"a", "<", "b">>)

AttrsAB ==
    MakeList(<<Cons(Symbol(<<"i", "d">>), String(<<"x", "&", "y">>)),
               MakeList(<<Symbol(<<"h", "r", "e", "f">>), String(<<"u", " ", "v">>)>>)>>)

SinkInputs ==
    {StrAB,
     Elem(<<"p">>, <<AttrsAB, StrAB, Elem(<<"b", "r">>, <<>>), StrAB>>),
     Elem(<<"d", "i", "v">>, <<Elem(<<"l", "i">>, <<StrAB>>), Elem(<<"l", "i">>, <<>>)>>),
     Elem(nameInlineComment, <<String(<<"c", "-", "-", "d">>), String(<<"e">>)>>),
     Elem(nameBlockComment, <<String(<<"-", "-", "-">>)>>),
     Elem(nameCDATA, <<StrAB, StrAB>>),
     Elem(nameNoEscape, <<StrAB, Symbol(<<"s">>), StrAB>>),
     Elem(nameListSplice, <<StrAB, Elem(<<"b">>, <<StrAB>>)>>),
     Elem(nameDoctype, <<Elem(<<"h", "t", "m", "l">>, <<Elem(<<"h", "e", "a", "d">>, <<>>)>>)>>)}

SinkCalls ==
    {HTMLCall(w, obj) : w \in FailSinks, obj \in SinkInputs}
        \cup {ListCall(w, Twice(obj)) : w \in FailSinks, obj \in SinkInputs}

SpecSink == InitOver(SinkCalls) /\ [][Next]_vars

\* The same call on a sink that never fails, under the generator of the call.
Unfailing ==
    IF call.op = "WriteHTML"
    THEN generate(NewEncoder(myEncoder.gen, GoodSink), call.obj)
    ELSE generateEach(NewEncoder(myEncoder.gen, GoodSink), Values(call.obj))

\* Whether the sink has returned an error during the call.
SinkFailed == myEncoder.pr.w.failAt # 0 /\ myEncoder.pr.w.calls >= myEncoder.pr.w.failAt

\* C2: once the sink has returned an error for a write, the call issues no later write
\* to it, while the walk runs to its end; the call returns the first error of the sink,
\* and nil exactly when the sink returned none.
C2_StickyError ==
    pc = "done" =>
        LET w == myEncoder.pr.w
        IN  IF SinkFailed
            THEN /\ w.calls = w.failAt
                 /\ ret.err = w.failAt
                 /\ ret.err # NoError
                 /\ myEncoder.lastWasTag = Unfailing.lastWasTag
                 /\ HasPrefix(Unfailing.pr.w.data, w.data)
                 /\ ret.n = Len(w.data)
            ELSE /\ ret.err = NoError
                 /\ w.data = Unfailing.pr.w.data

C2_Witness ==
    /\ pc = "done"
    /\ SinkFailed
    /\ myEncoder.pr.w.failAt = 3
    /\ ret.err = 3
    /\ Unfailing.pr.w.calls > 5
    /\ call.op = "WriteListHTML"

----------------------------------------------------------------------------
(* Attribute lists: (a (entry ...) "t").                                   *)

MaxAttrs == 3

KeyA == <<"a">>

KeyB == <<"b">>

KeyHref == <<"h", "r", "e", "f">>

\* The keys of the entries, in ascending byte order.
KeyOrder == <<KeyA, KeyB, KeyHref>>

AttrKeys == {KeyOrder[i] : i \in 1..Len(KeyOrder)}

\* (k . " y"), (k "z "), (k) and (k ()).
EntriesOf(k) ==
    {Cons(Symbol(k), String(<<" ", "y">>)),
     MakeList(<<Symbol(k), String(<<"z", " ">>)>>),
     MakeList(<<Symbol(k)>>),
     MakeList(<<Symbol(k), Nil>>)}

AttrEntries == UNION {EntriesOf(k) : k \in AttrKeys}

RECURSIVE SeqsOfLen(_, _)
SeqsOfLen(S, n) ==
    IF n = 0 THEN {<<>>} ELSE {<<x>> \o t : x \in S, t \in SeqsOfLen(S, n - 1)}

AttrLists == UNION {SeqsOfLen(AttrEntries, n) : n \in 1..MaxAttrs}

TextT == String(<<"t">>)

AttrElem(es) == Elem(<<"a">>, <<MakeList(es), TextT>>)

AttrCalls ==
    {HTMLCall(GoodSink, AttrElem(es)) : es \in AttrLists}
        \cup {ListCall(GoodSink, Twice(AttrElem(es))) : es \in SeqsOfLen(AttrEntries, 1)}

SpecAttr == InitOver(AttrCalls) /\ [][Next]_vars

\* The entries of the attribute list of the element the call renders.
CallEntries == Values(call.obj.cdr.car)

KeyOf(e) == e.car.val

\* The index of the first entry of es with key k, 0 if there is none.
FirstIndex(es, k) ==
    IF \E i \in 1..Len(es) : KeyOf(es[i]) = k
    THEN CHOOSE i \in 1..Len(es) : KeyOf(es[i]) = k /\ \A j \in 1..(i - 1) : KeyOf(es[j]) # k
    ELSE 0

\* An entry with a value the encoder can use: here a string, dotted or as second element.
HasValue(e) ==
    \/ e.cdr.kind = "string"
    \/ IsPair(e.cdr) /\ e.cdr.car.kind = "string"

IsTombstone(e) == IsPair(e.cdr) /\ IsNil(e.cdr.car)

ValueOf(e) == IF e.cdr.kind = "string" THEN e.cdr.val ELSE e.cdr.car.val

\* The number of places at which pat occurs in s, and the first of them.
Count(s, pat) ==
    Cardinality({i \in 1..(Len(s) - Len(pat) + 1) : SubSeq(s, i, i + Len(pat) - 1) = pat})

Pos(s, pat) ==
    CHOOSE i \in 1..(Len(s) - Len(pat) + 1) :
        /\ SubSeq(s, i, i + Len(pat) - 1) = pat
        /\ \A j \in 1..(i - 1) : SubSeq(s, j, j + Len(pat) - 1) # pat

\* The attribute text of (a (es...) "t"): what stands between "<a" and ">t</a>".
AttrText(g, es) ==
    LET out == Render(g, AttrElem(es))
    IN  SubSeq(out, 3, Len(out) - 6)

AttrDone == pc = "done" /\ call.op = "WriteHTML"

\* C3: the first entry of a key decides the attribute: when it has a usable value and
\* later entries have the same key, the attribute is written once, as the first entry
\* alone would be written.
C3_FirstEntryWins ==
    AttrDone =>
        \A k \in AttrKeys :
            LET i == FirstIndex(CallEntries, k)
            IN  (/\ i # 0
                 /\ HasValue(CallEntries[i])
                 /\ \E j \in (i + 1)..Len(CallEntries) : KeyOf(CallEntries[j]) = k) =>
                    /\ Count(Written, <<" ">> \o k) = 1
                    /\ Count(Written, AttrText(myEncoder.gen, <<CallEntries[i]>>)) = 1
                    /\ Count(Written, <<" ">> \o k \o <<"=", "\"">>) = 1

C3_Witness ==
    /\ AttrDone
    /\ CallEntries = <<Cons(Symbol(KeyB), String(<<" ", "y">>)),
                       MakeList(<<Symbol(KeyB), String(<<"z", " ">>)>>),
                       MakeList(<<Symbol(KeyB)>>)>>
    /\ Written = <<"<", "a", " ", "b", "=", "\"", "y", "\"", ">", "t", "<", "/", "a", ">">>

\* es without its entries of key k.
RECURSIVE Without(_, _)
Without(es, k) ==
    IF es = <<>> THEN <<>>
    ELSE (IF KeyOf(Head(es)) = k THEN <<>> ELSE <<Head(es)>>) \o Without(Tail(es), k)

\* C4: when the first entry of a key is (k ()), the attribute k is absent from the tag,
\* whatever entries of k follow, and the other attributes are written as without them.
C4_Tombstone ==
    AttrDone =>
        \A k \in AttrKeys :
            LET i == FirstIndex(CallEntries, k)
            IN  (i # 0 /\ IsTombstone(CallEntries[i])) =>
                    /\ Count(Written, <<" ">> \o k) = 0
                    /\ Written = Render(myEncoder.gen, AttrElem(Without(CallEntries, k)))

C4_Witness ==
    /\ AttrDone
    /\ CallEntries = <<MakeList(<<Symbol(KeyA), Nil>>),
                       MakeList(<<Symbol(KeyB), String(<<"z", " ">>)>>),
                       Cons(Symbol(KeyA), String(<<" ", "y">>))>>
    /\ Written = <<"<", "a", " ", "b", "=", "\"", "z", "\"", ">", "t", "<", "/", "a", ">">>

DistinctKeys(es) == \A i, j \in 1..Len(es) : KeyOf(es[i]) = KeyOf(es[j]) => i = j

\* The orders in which the entries es can be listed.
Orders(es) ==
    {[i \in 1..Len(es) |-> es[f[i]]] : f \in Permutations(1..Len(es))}

\* C5: entries with pairwise distinct keys are written the same in whatever order the
\* list holds them, the keys in ascending order.
C5_SortedAttributes ==
    (AttrDone /\ DistinctKeys(CallEntries)) =>
        /\ \A es \in Orders(CallEntries) :
               Render(myEncoder.gen, AttrElem(es)) = Written
        /\ \A m, n \in 1..Len(KeyOrder) :
               (/\ m < n
                /\ Count(Written, <<" ">> \o KeyOrder[m]) = 1
                /\ Count(Written, <<" ">> \o KeyOrder[n]) = 1) =>
                    Pos(Written, <<" ">> \o KeyOrder[m]) < Pos(Written, <<" ">> \o KeyOrder[n])

C5_Witness ==
    /\ AttrDone
    /\ CallEntries = <<MakeList(<<Symbol(KeyHref), String(<<"z", " ">>)>>),
                       MakeList(<<Symbol(KeyB)>>),
                       Cons(Symbol(KeyA), String(<<" ", "y">>))>>
    /\ Written = <<"<", "a", " ", "a", "=", "\"", "y", "\"", " ", "b", " ",
                   "h", "r", "e", "f", "=", "\"", "z", "%", "2", "0", "\"", ">",
                   "t", "<", "/", "a", ">">>

\* The value the claim expects between the quotes: trimmed first, then escaped.
TrimmedThenEscaped(k, v) ==
    IF k = KeyHref THEN urlEscape(TrimSpace(v)) ELSE TrimSpace(v)

\* C10: the value of every attribute is trimmed of surrounding white space before it
\* is escaped; the spaces around the value of a URL attribute such as href are written
\* neither raw nor percent-encoded.
C10_TrimBeforeEscape ==
    AttrDone =>
        \A k \in AttrKeys :
            LET i == FirstIndex(CallEntries, k)
            IN  (i # 0 /\ HasValue(CallEntries[i])) =>
                    /\ Count(Written,
                             <<" ">> \o k \o <<"=", "\"">>
                                 \o TrimmedThenEscaped(k, ValueOf(CallEntries[i]))
                                 \o <<"\"">>) = 1
                    /\ Count(Written, <<"\"", "%", "2", "0">>) = 0
                    /\ Count(Written, <<"%", "2", "0", "\"">>) = 0

----------------------------------------------------------------------------
(* Comments: (@@ item ...) and (@@@ item ...).                             *)

MaxCommentLen == 4

CommentBytes == {"-", ">", "a"}

CommentItems ==
    {String(s) : s \in StrUpTo(CommentBytes, MaxCommentLen)}
        \cup {Symbol(<<"-", "-">>), Symbol(<<"a", "-">>), Number(<<"7">>)}

ShortItems == {String(s) : s \in StrUpTo(CommentBytes, 2)} \cup {Symbol(<<"-", "-">>)}

CommentInputs ==
    {Elem(d, <<c>>) : d \in {nameInlineComment, nameBlockComment}, c \in CommentItems}
        \cup {Elem(d, <<c1, c2>>) :
                d \in {nameInlineComment, nameBlockComment}, c1 \in ShortItems, c2 \in ShortItems}

CommentCalls ==
    {HTMLCall(GoodSink, obj) : obj \in CommentInputs}
        \cup {ListCall(GoodSink, Twice(Elem(nameInlineComment, <<c>>))) : c \in ShortItems}

SpecComment == InitOver(CommentCalls) /\ [][Next]_vars

HasSuffix(s, t) == Len(s) >= Len(t) /\ SubSeq(s, Len(s) - Len(t) + 1, Len(s)) = t

\* What the comment holds between its opening "<!--" and its closing "-->".
CommentBody ==
    IF call.obj.car.val = nameInlineComment
    THEN SubSeq(Written, 5, Len(Written) - 3)
    ELSE SubSeq(Written, 5, Len(Written) - 4)

\* C9: whatever the items of a comment are, nothing between the opening "<!--" and the
\* closing "-->" of the comment written for @@ or @@@ is "--".
C9_CommentSafe ==
    (pc = "done" /\ call.op = "WriteHTML") =>
        /\ HasPrefix(Written, <<"<", "!", "-", "-">>)
        /\ IF call.obj.car.val = nameInlineComment
           THEN HasSuffix(Written, <<"-", "-", ">">>)
           ELSE HasSuffix(Written, <<"-", "-", ">", "\n">>)
        /\ Count(CommentBody, <<"-", "-">>) = 0
        /\ Count(CommentBody, <<"-", "-", ">">>) = 0

C9_Witness ==
    /\ pc = "done"
    /\ call.op = "WriteHTML"
    /\ call.obj = Elem(nameInlineComment, <<String(<<"-", "-", "-", ">">>)>>)
    /\ Written = <<"<", "!", "-", "-", " ", "-", "&", "#", "4", "5", ";", "-", ">",
                   " ", "-", "-", ">">>

----------------------------------------------------------------------------
(* Elements: void tags, tags that are dropped when empty, and others,      *)
(* with and without an attribute list, over lists of children.             *)

MaxChildren == 2

\* The void elements as the README lists them.
VoidTags ==
    {<<"a", "r", "e", "a">>, <<"b", "a", "s", "e">>, <<"b", "r">>, <<"c", "o", "l">>,
     <<"e", "m", "b", "e", "d">>, <<"h", "r">>, <<"i", "m", "g">>, <<"i", "n", "p", "u", "t">>,
     <<"l", "i", "n", "k">>, <<"m", "e", "t", "a">>, <<"s", "o", "u", "r", "c", "e">>, <<"t", "r", "a", "c", "k">>,
     <<"w", "b", "r">>}

\* The tags the claims call ignorable.
IgnorableTags ==
    {<<"d", "i", "v">>, <<"s", "p", "a", "n">>, <<"c", "o", "d", "e">>, <<"k", "b", "d">>,
     <<"p">>, <<"s", "a", "m", "p">>}

OtherTags == {<<"b">>, <<"l", "i">>}

ChildB == Elem(<<"b">>, <<String(<<"Y">>)>>)

\* "", "X", (b "Y"), (), the symbol s and the number 7.
ChildObjs ==
    {String(<<>>), String(<<"X">>), ChildB, Nil, Symbol(<<"s">>), Number(<<"7">>)}

ChildLists == UNION {SeqsOfLen(ChildObjs, n) : n \in 0..MaxChildren}

AttrsId == MakeList(<<Cons(Symbol(<<"i", "d">>), String(<<"i">>))>>)

AttrsC == MakeList(<<MakeList(<<Symbol(<<"c">>)>>)>>)

\* The attribute lists of the elements and what each is written as.
AttrOptions == {AttrsId, AttrsC}

AttrOptionText(as) == IF as = AttrsId THEN <<" ", "i", "d", "=", "\"", "i", "\"">> ELSE <<" ", "c">>

TagInputs ==
    {Elem(t, cs) : t \in VoidTags \cup IgnorableTags \cup OtherTags, cs \in ChildLists}
        \cup {Elem(t, <<as>> \o cs) :
                t \in VoidTags \cup IgnorableTags \cup OtherTags,
                as \in AttrOptions, cs \in ChildLists}

TagCalls ==
    {HTMLCall(GoodSink, obj) : obj \in TagInputs}
        \cup {ListCall(GoodSink, Twice(Elem(t, <<>>))) : t \in VoidTags \cup IgnorableTags}

SpecTag == InitOver(TagCalls) /\ [][Next]_vars

TagDone == pc = "done" /\ call.op = "WriteHTML"

CallTag == call.obj.car.val

\* Whether the element of the call has an attribute list, and its children behind it.
CallHasAttrs == IsPair(call.obj.cdr) /\ call.obj.cdr.car \in AttrOptions

CallAttrText == IF CallHasAttrs THEN AttrOptionText(call.obj.cdr.car) ELSE <<>>

CallChildren ==
    IF CallHasAttrs THEN Values(call.obj.cdr.cdr) ELSE Values(call.obj.cdr)

\* What a child is written as.
ChildText(o) ==
    CASE o.kind \in {"string", "number"} -> o.val
      [] o = ChildB -> <<"<", "b", ">", "Y", "<", "/", "b", ">">>
      [] OTHER -> <<>>

ChildrenText(cs) == Concat([i \in 1..Len(cs) |-> ChildText(cs[i])])

\* A text as it stands, or with the line break the newline option puts before it.
MaybeAfterNL(text) ==
    {text} \cup (IF myEncoder.gen.withNewline THEN {<<"\n">> \o text} ELSE {})

\* The element written in full, with the line breaks the newline option may add.
FullElement(t, attrText, inner) ==
    {pre \o <<"<">> \o t \o attrText \o <<">">> \o inner \o <<"<", "/">> \o t \o <<">">> \o post :
        pre \in (IF myEncoder.gen.withNewline THEN {<<>>, <<"\n">>} ELSE {<<>>}),
        post \in (IF myEncoder.gen.withNewline THEN {<<>>, <<"\n">>} ELSE {<<>>})}

\* C6: a void element is written as its start tag with its attributes and nothing
\* else, whatever children it has, with and without attribute list, in both newline modes.
C6_VoidElement ==
    (TagDone /\ CallTag \in VoidTags) =>
        Written \in MaybeAfterNL(<<"<">> \o CallTag \o CallAttrText \o <<">">>)

C6_Witness ==
    /\ TagDone
    /\ call.obj = Elem(<<"i", "m", "g">>, <<AttrsId, String(<<"X">>), ChildB>>)
    /\ Written = <<"<", "i", "m", "g", " ", "i", "d", "=", "\"", "i", "\"", ">">>

AllEmptyStrings(cs) == \A i \in 1..Len(cs) : cs[i] = String(<<>>)

\* C7: an ignorable tag without children, or with empty strings as its only children,
\* is written as nothing; with any child that is a non-empty string or not a string it
\* is written in full: start tag, children, end tag.
C7_EmptyCollapse ==
    (TagDone /\ CallTag \in IgnorableTags /\ ~CallHasAttrs) =>
        IF AllEmptyStrings(CallChildren)
        THEN Written = <<>>
        ELSE Written \in FullElement(CallTag, <<>>, ChildrenText(CallChildren))

C7_WitnessFull ==
    /\ TagDone
    /\ call.obj = Elem(<<"s", "p", "a", "n">>, <<String(<<>>), Nil>>)
    /\ Written = <<"<", "s", "p", "a", "n", ">", "<", "/", "s", "p", "a", "n", ">">>

C7_Witness ==
    /\ TagDone
    /\ call.obj = Elem(<<"d", "i", "v">>, <<String(<<>>), String(<<>>)>>)
    /\ Written = <<>>

\* C8 as claimed: an ignorable tag with an attribute list whose remaining children are
\* absent or empty strings is written as nothing.
C8_CollapseBehindAttrs ==
    (TagDone /\ CallTag \in IgnorableTags /\ CallHasAttrs /\ AllEmptyStrings(CallChildren)) =>
        Written = <<>>

\* C8, amended: the emptiness test takes in the attribute list, which is not an empty
\* string; an ignorable tag with an attribute list is always written in full, start tag
\* with its attributes, children and end tag, also when every remaining child is an
\* empty string.
C8_AttrsPreventCollapse ==
    (TagDone /\ CallTag \in IgnorableTags /\ CallHasAttrs) =>
        Written \in FullElement(CallTag, CallAttrText, ChildrenText(CallChildren))

C8_Witness ==
    /\ TagDone
    /\ call.obj = Elem(<<"p">>, <<AttrsId, String(<<>>)>>)
    /\ Written = <<"<", "p", " ", "i", "d", "=", "\"", "i", "\"", ">", "<", "/", "p", ">">>

----------------------------------------------------------------------------
(* Values of a plain attribute: (a ((id . "v")) "t").                      *)

MaxValueLen == 2

ValueBytes == {"&", "<", ">", "\"", "NUL", "a", " "}

KeyId == <<"i", "d">>

PlainValues == StrUpTo(ValueBytes, MaxValueLen)

\* The element (a ((k . "v")) "t").
ValueElem(k, v) == Elem(<<"a">>, <<MakeList(<<Cons(Symbol(k), String(v))>>), TextT>>)

PlainCalls ==
    {HTMLCall(GoodSink, ValueElem(KeyId, v)) : v \in PlainValues}
        \cup {ListCall(GoodSink, Twice(ValueElem(KeyId, v))) : v \in PlainValues}

SpecPlainValue == InitOver(PlainCalls) /\ [][Next]_vars

\* The value of the one attribute entry of the element the call renders.
CallValue == call.obj.cdr.car.car.cdr.val

\* (a ((k . "v")) "t") as written with x between the quotes of k.
Quoted(k, x) ==
    <<"<", "a", " ">> \o k \o <<"=", "\"">> \o x \o <<"\"", ">", "t", "<", "/", "a", ">">>

\* C11 as claimed: what is written between the quotes of an attribute is the value
\* with each of & < > " and NUL replaced as in text content, so that no raw < > or "
\* stands between the quotes.
C11_SameSetAsText ==
    AttrDone =>
        LET x == EscapedText(TrimSpace(CallValue))
        IN  /\ Written = Quoted(KeyId, x)
            /\ \A i \in 1..Len(x) : x[i] \notin {"<", ">", "\""}

\* The replacements of attribute values, byte by byte: &, " and NUL only.
AttrEscapedByte(b) ==
    CASE b = "&"   -> <<"&", "a", "m", "p", ";">>
      [] b = "\""  -> <<"&", "q", "u", "o", "t", ";">>
      [] b = "NUL" -> <<"xef", "xbf", "xbd">>
      [] OTHER     -> <<b>>

AttrEscapedText(s) == Concat([i \in 1..Len(s) |-> AttrEscapedByte(s[i])])

\* C11, amended: between the quotes of an attribute each of & " and NUL of the value
\* is replaced by &amp; &quot; and U+FFFD, while < and > are written as they are; the
\* text between the quotes holds no raw " and no NUL, and as many < and > as the value.
C11_AttrValueEscaped ==
    AttrDone =>
        LET v == TrimSpace(CallValue)
            x == AttrEscapedText(v)
        IN  /\ Written = Quoted(KeyId, x)
            /\ \A i \in 1..Len(x) : x[i] \notin {"\"", "NUL"}
            /\ Count(x, <<"<">>) = Count(v, <<"<">>)
            /\ Count(x, <<">">>) = Count(v, <<">">>)

C11_Witness ==
    /\ AttrDone
    /\ CallValue = <<"<", "\"">>
    /\ Written = <<"<", "a", " ", "i", "d", "=", "\"", "<", "&", "q", "u", "o", "t", ";",
                   "\"", ">", "t", "<", "/", "a", ">">>

----------------------------------------------------------------------------
(* Values of a URL attribute: (a ((href . "v")) "t").                      *)

MaxUrlLen == 3

UrlBytes == {"%", "a", "g", "F", "2", "~", "&", " ", "\"", "<", ">", "xc3", "NUL"}

\* search?q=%&r=Ä, the value of the test SimpleURLAttr.
UrlSearch ==
    <<"s", "e", "a", "r", "c", "h", "?", "q", "=", "%", "&", "r", "=", "xc3", "x84">>

\* %2F%2: an escape, and a "%" too close to the end to start one.
UrlEscaped == <<"%", "2", "F", "%", "2">>

UrlValues == StrUpTo(UrlBytes, MaxUrlLen) \cup {UrlSearch, UrlEscaped}

UrlCalls ==
    {HTMLCall(GoodSink, ValueElem(KeyHref, v)) : v \in UrlValues}
        \cup {ListCall(GoodSink, Twice(ValueElem(KeyHref, v))) : v \in StrUpTo(UrlBytes, 1)}

SpecUrlValue == InitOver(UrlCalls) /\ [][Next]_vars

\* The bytes the claim says are copied unchanged.
UrlCopied ==
    LowerLetters \cup UpperLetters \cup Digits \cup {"-", ".", "_", "~"}
        \cup {"!", "#", "$", "&", "*", "+", ",", "/", ":", ";", "=", "?", "@", "[", "]"}

HexDigitBytes ==
    Digits \cup {"a", "b", "c", "d", "e", "f"} \cup {"A", "B", "C", "D", "E", "F"}

\* The numbers of the bytes of the values that are not copied.
ByteNumber ==
    "NUL" :> 0 @@ " " :> 32 @@ "\"" :> 34 @@ "%" :> 37 @@ "<" :> 60 @@ ">" :> 62 @@
    "xc3" :> 195 @@ "x84" :> 132

LowerHexDigits ==
    <<"0", "1", "2", "3", "4", "5", "6", "7", "8", "9", "a", "b", "c", "d", "e", "f">>

\* "%" and the two lower-case hex digits of the byte b.
PercentEncoded(b) ==
    <<"%", LowerHexDigits[(ByteNumber[b] \div 16) + 1], LowerHexDigits[(ByteNumber[b] % 16) + 1]>>

\* What the claim says byte i of s becomes.
UrlPiece(s, i) ==
    IF s[i] \in UrlCopied THEN <<s[i]>>
    ELSE IF /\ s[i] = "%"
            /\ i + 2 <= Len(s)
            /\ s[i + 1] \in HexDigitBytes
            /\ s[i + 2] \in HexDigitBytes THEN <<"%">>
    ELSE PercentEncoded(s[i])

UrlPieces(s) == Concat([i \in 1..Len(s) |-> UrlPiece(s, i)])

\* C12: urlEscape copies letters, digits, -._~ and ! # $ & * + , / : ; = ? @ [ ], copies
\* a "%" that two hex digits follow, and replaces every other byte, a "%" without two
\* hex digits behind it included, by "%" and its two lower-case hex digits; the result
\* is these pieces in the order of the input, and it is what stands (with & written as
\* &amp;) between the quotes of href.
C12_UrlEscapeByBytes ==
    AttrDone =>
        /\ urlEscape(CallValue) = UrlPieces(CallValue)
        /\ Written = Quoted(KeyHref, AttrEscapedText(UrlPieces(CallValue)))

C12_Witness ==
    /\ AttrDone
    /\ CallValue = UrlEscaped
    /\ Written = Quoted(KeyHref, <<"%", "2", "F", "%", "2", "5", "2">>)

\* The text between the quotes of the attribute href of the element (a ((href . "v")) "t").
HrefText == SubSeq(Written, 10, Len(Written) - 7)

HighBytes == {"xc3", "x84", "xef", "xbf", "xbd"}

\* C13: between the quotes of a URL attribute stands no byte >= 0x80, no raw " < > and
\* no space, and every & there starts the entity &amp;.
C13_UrlValueSafe ==
    AttrDone =>
        /\ Written = Quoted(KeyHref, HrefText)
        /\ \A i \in 1..Len(HrefText) :
               /\ HrefText[i] \notin HighBytes \cup {"\"", "<", ">", " "}
               /\ HrefText[i] = "&" =>
                      SubSeq(HrefText, i, i + 4) = <<"&", "a", "m", "p", ";">>

C13_Witness ==
    /\ AttrDone
    /\ CallValue = UrlSearch
    /\ HrefText = <<"s", "e", "a", "r", "c", "h", "?", "q", "=", "%", "2", "5",
                    "&", "a", "m", "p", ";", "r", "=", "%", "c", "3", "%", "8", "4">>

----------------------------------------------------------------------------
(* Attribute lists headed by the symbol @: (a (@ entry ...) "t").          *)

\* https://x
XHttps == <<"h", "t", "t", "p", "s", ":", "/", "/", "x">>

AtEntries == AttrEntries \cup {Cons(Symbol(KeyHref), String(XHttps))}

\* (@ entry ...)
AtList(es) == Elem(<<"@">>, es)

AtElem(es) == Elem(<<"a">>, <<AtList(es), TextT>>)

AtCalls ==
    {HTMLCall(GoodSink, AtElem(es)) : es \in SeqsOfLen(AtEntries, 1) \cup SeqsOfLen(AtEntries, 2)}
        \cup {ListCall(GoodSink, Twice(AtElem(es))) : es \in SeqsOfLen(AtEntries, 1)}

SpecAtList == InitOver(AtCalls) /\ [][Next]_vars

\* The entries behind the @ of the element the call renders.
CallAtEntries == Values(call.obj.cdr.car.cdr)

\* C14: a list headed by @ right behind the tag symbol is taken as the attribute list
\* of the element and is not rendered as a child: the element is written with the
\* attributes of the entries, and no element named @ or href is written.
C14_AtListIsAttributes ==
    AttrDone =>
        /\ Written = Render(myEncoder.gen, AttrElem(CallAtEntries))
        /\ Count(Written, <<"<", "@">>) = 0
        /\ Count(Written, <<"<", "h", "r", "e", "f">>) = 0

----------------------------------------------------------------------------
(* Line breaks: trees rendered alone, as (t "/" t) and one behind another. *)

\* Tags that always start a line, tags that start one behind text, and tags that never do.
LineTagNames ==
    {<<"h", "e", "a", "d">>, <<"d", "i", "v">>, <<"l", "i", "n", "k">>, <<"t", "i", "t", "l", "e">>,
     <<"m", "e", "t", "a">>,
     <<"l", "i">>, <<"b", "o", "d", "y">>, <<"i", "n", "p", "u", "t">>, <<"h", "1">>,
     <<"b">>, <<"p">>, <<"b", "r">>, <<"h", "t", "m", "l">>}

StringX == String(<<"X">>)

\* (tag), (tag "X") and (tag "").
LineElems ==
    {Elem(t, cs) : t \in LineTagNames, cs \in {<<>>, <<StringX>>, <<String(<<>>)>>}}

LiX == Elem(<<"l", "i">>, <<StringX>>)

\* Atoms, elements around elements, and the directives.
OtherTrees ==
    {Nil, StringX, Symbol(<<"s">>), Number(<<"7">>),
     Elem(<<"b">>, <<LiX>>), Elem(<<"d", "i", "v">>, <<LiX, LiX>>), Elem(<<"u", "l">>, <<StringX, LiX>>),
     Elem(nameListSplice, <<LiX, StringX>>), Elem(nameListSplice, <<Elem(<<"p">>, <<>>), LiX>>),
     Elem(nameDoctype, <<LiX>>), Elem(nameInlineComment, <<StringX>>),
     Elem(nameBlockComment, <<StringX>>), Elem(nameCDATA, <<StringX>>),
     Elem(nameNoEscape, <<StringX>>),
     Elem(nameDoctype,
          <<Elem(<<"h", "t", "m", "l">>,
                 <<Elem(<<"h", "e", "a", "d">>, <<Elem(<<"t", "i", "t", "l", "e">>, <<String(<<"T">>)>>)>>)>>)>>)}

LineTrees == LineElems \cup OtherTrees

LineCalls ==
    {HTMLCall(GoodSink, t) : t \in LineTrees}
        \cup {ListCall(GoodSink, Twice(t)) : t \in LineTrees}
        \cup {ListCall(GoodSink, MakeList(<<t1, t2>>)) : t1 \in LineElems, t2 \in LineElems}

SpecLine == InitOver(LineCalls) /\ [][Next]_vars

ListDone == pc = "done" /\ call.op = "WriteListHTML"

\* The call renders a list (t "/" t).
IsTwice == Len(Values(call.obj)) = 3 /\ call.obj = Twice(call.obj.car)

\* C15 as claimed: WriteListHTML of (t "/" t) writes what WriteHTML writes for t, "/",
\* and what WriteHTML writes for t, with the newline option off and on.
C15_ListIsTwice ==
    (ListDone /\ IsTwice) =>
        LET r == Render(myEncoder.gen, call.obj.car)
        IN  Written = r \o <<"/">> \o r

\* What is written for obj by an encoder whose last-was-tag is last.
RenderFrom(g, last, obj) ==
    generate([NewEncoder(g, GoodSink) EXCEPT !.lastWasTag = last], obj).pr.w.data

\* An element that is written and whose tag starts a line only behind text.
StartsLineBehindText(t) ==
    /\ IsPair(t)
    /\ t.car.kind = "symbol"
    /\ t.car.val \in {<<"l", "i">>, <<"b", "o", "d", "y">>, <<"i", "n", "p", "u", "t">>, <<"h", "1">>}

IsAtom(t) == t.kind \in {"nil", "string", "number", "symbol"}

\* C15, amended: WriteListHTML of (t "/" t) writes what WriteHTML writes for t, "/", and
\* t as it is rendered behind text (last-was-tag false).  With the newline option off
\* that is what WriteHTML writes for t, for every tree; with the option on it is so for
\* atoms, while an element such as (li), whose tag starts a line only behind text, has
\* a line break more before its second copy.
C15_SecondCopyBehindText ==
    (ListDone /\ IsTwice) =>
        LET g == myEncoder.gen
            t == call.obj.car
            r == Render(g, t)
        IN  /\ Written = r \o <<"/">> \o RenderFrom(g, FALSE, t)
            /\ (~g.withNewline \/ IsAtom(t)) => Written = r \o <<"/">> \o r
            /\ (g.withNewline /\ StartsLineBehindText(t)) =>
                   Written = r \o <<"/", "\n">> \o r

C15_Witness ==
    /\ ListDone
    /\ myEncoder.gen.withNewline
    /\ call.obj = Twice(Elem(<<"l", "i">>, <<>>))
    /\ Written = <<"<", "l", "i", ">", "<", "/", "l", "i", ">", "\n", "/", "\n",
                   "<", "l", "i", ">", "<", "/", "l", "i", ">", "\n">>

\* The tags the claim names: those that start a line wherever they stand.
AlwaysLineTags ==
    {<<"h", "e", "a", "d">>, <<"l", "i", "n", "k">>, <<"m", "e", "t", "a">>, <<"t", "i", "t", "l", "e">>,
     <<"d", "i", "v">>}

\* Whether the element t is left out: an ignorable tag with none but empty strings.
IsIgnored(t) == t.car.val \in IgnorableTags /\ AllEmptyStrings(Values(t.cdr))

\* Whether the newline option g takes effect for the element t.
Triggers(g, t) == g.withNewline /\ t.car.val \in nlTags

\* What the claim says is written for the element t of LineElems when last-was-tag is last.
LineElemText(g, last, t) ==
    LET name == t.car.val
        pre  == IF Triggers(g, t) /\ (~last \/ name \in AlwaysLineTags) THEN <<"\n">> ELSE <<>>
        post == IF Triggers(g, t) THEN <<"\n">> ELSE <<>>
    IN  IF name \in VoidTags THEN pre \o <<"<">> \o name \o <<">">>
        ELSE pre \o <<"<">> \o name \o <<">">> \o ChildrenText(Values(t.cdr))
                 \o <<"<", "/">> \o name \o <<">">> \o post

\* What is written for the items (elements of LineElems and strings) one behind
\* another, and last-was-tag behind them, when last-was-tag is last before them.
RECURSIVE LineItemsText(_, _, _)
LineItemsText(g, last, items) ==
    IF items = <<>> THEN [text |-> <<>>, last |-> last]
    ELSE LET t == Head(items)
         IN  IF t.kind = "string"
             THEN LET r == LineItemsText(g, FALSE, Tail(items))
                  IN  [r EXCEPT !.text = t.val \o @]
             ELSE IF IsIgnored(t) THEN LineItemsText(g, last, Tail(items))
             ELSE LET r == LineItemsText(g, Triggers(g, t), Tail(items))
                  IN  [r EXCEPT !.text = LineElemText(g, last, t) \o @]

\* The items the call renders: the tree of WriteHTML, the elements of the list of WriteListHTML.
CallItems == IF call.op = "WriteHTML" THEN <<call.obj>> ELSE Values(call.obj)

\* C16: with the newline option set, a tag of the newline-triggering set that is not
\* left out has "\n" before its "<" exactly when last-was-tag is false or the tag is one
\* of head, link, meta, title, div; its closing tag, if it is not void, is followed by
\* "\n"; last-was-tag is true behind it.  Without the option, or for another tag, no
\* line break is written around the tag and last-was-tag is false behind it.
C16_LineBreaks ==
    (pc = "done" /\ \A i \in 1..Len(CallItems) : CallItems[i] \in LineElems \cup {Slash}) =>
        LET r == LineItemsText(myEncoder.gen, TRUE, CallItems)
        IN  /\ Written = r.text
            /\ myEncoder.lastWasTag = r.last
            /\ \A i \in 1..Len(CallItems) :
                   (CallItems[i] \in LineElems /\ ~IsIgnored(CallItems[i])) =>
                       LET before == LineItemsText(myEncoder.gen, TRUE, SubSeq(CallItems, 1, i - 1))
                           upto   == LineItemsText(myEncoder.gen, TRUE, SubSeq(CallItems, 1, i))
                       IN  /\ upto.last = Triggers(myEncoder.gen, CallItems[i])
                           /\ HasPrefix(Written, upto.text)
                           /\ Len(upto.text) > Len(before.text)

C16_Witness ==
    /\ ListDone
    /\ myEncoder.gen.withNewline
    /\ call.obj = MakeList(<<Elem(<<"d", "i", "v">>, <<StringX>>), LiX>>)
    /\ Written = <<"\n", "<", "d", "i", "v", ">", "X", "<", "/", "d", "i", "v", ">", "\n",
                   "<", "l", "i", ">", "X", "<", "/", "l", "i", ">", "\n">>
    /\ myEncoder.lastWasTag

----------------------------------------------------------------------------
(* Several render calls on one generator, some of them on failing sinks.   *)

MaxCalls == 3

FreshTrees ==
    {StrAB, Elem(<<"l", "i">>, <<StrAB>>), Elem(<<"p">>, <<AttrsAB, StrAB>>)}

\* A sink that never fails, one that fails at once, one that fails at its second write.
FreshSinks == {GoodSink, NewSink(1, 0), NewSink(2, 1)}

FreshCalls ==
    {HTMLCall(w, t) : w \in FreshSinks, t \in FreshTrees}
        \cup {ListCall(w, Twice(t)) : w \in FreshSinks, t \in FreshTrees}

\* The caller makes its next render call on the generator.
NextCall ==
    /\ pc = "done"
    /\ Len(log) < MaxCalls
    /\ \E c \in FreshCalls : call' = c
    /\ pc' = "new"
    /\ UNCHANGED <<gen, myEncoder, ret, log, form, se>>

NextAgain == Next \/ NextCall

SpecFresh == InitOver(FreshCalls) /\ [][NextAgain]_vars

\* C17: every call of WriteHTML starts with an encoder without error, with last-was-tag
\* true and a byte count of 0: what it writes and returns is what the generator writes
\* and returns for the tree on that sink as its first call, whatever calls were made
\* on the generator before and however they ended.
C17_FreshEncoder ==
    (pc = "done" /\ call.op = "WriteHTML") =>
        LET first == generate(NewEncoder(gen, call.w), call.obj)
        IN  /\ Written = first.pr.w.data
            /\ ret = [n |-> first.pr.length, err |-> first.pr.err]
            /\ ret = log[Len(log)]
            /\ call.w = GoodSink =>
                   /\ ret.err = NoError
                   /\ ret.n = Len(Written)
                   /\ Written = Render(gen, call.obj)

C17_Witness ==
    /\ pc = "done"
    /\ call = HTMLCall(GoodSink, Elem(<<"l", "i">>, <<StrAB>>))
    /\ Len(log) = 3
    /\ log[1].err # NoError
    /\ log[2].err = NoError
    /\ log[2].n > 0
    /\ ret = [n |-> 16, err |-> NoError]
    /\ Written = <<"<", "l", "i", ">", "a", "&", "l", "t", ";", "b", "<", "/", "l", "i", ">", "\n">>

----------------------------------------------------------------------------
(* Attribute entries of every shape: keys that are symbols, strings or     *)
(* Nil; values that are absent, dotted, or the second element.             *)

EntryKeys == {Symbol(KeyA), Symbol(KeyHref), String(<<"k">>), Nil}

\* "", " ", " \t", "v", the symbol s, the number 7, the list (1), and ().
EntryValues ==
    {String(<<>>), String(<<" ">>), String(<<" ", "\t">>), String(<<"v">>),
     Symbol(<<"s">>), Number(<<"7">>), MakeList(<<Number(<<"1">>)>>), Nil}

\* (k . v) and (k v); (k . ()) is (k).
ShapedEntries ==
    {Cons(k, v) : k \in EntryKeys, v \in EntryValues}
        \cup {MakeList(<<k, v>>) : k \in EntryKeys, v \in EntryValues}

EntryBW == Cons(Symbol(KeyB), String(<<"w">>))

EntryLists == {<<e>> : e \in ShapedEntries} \cup {<<e, EntryBW>> : e \in ShapedEntries}

EntryCalls ==
    {HTMLCall(GoodSink, AttrElem(es)) : es \in EntryLists}
        \cup {ListCall(GoodSink, Twice(AttrElem(<<e>>))) : e \in ShapedEntries}

SpecEntry == InitOver(EntryCalls) /\ [][Next]_vars

\* The first entry of the attribute list of the call, and the object that is its value.
FirstEntry == CallEntries[1]

EntryObj(e) == IF IsPair(e.cdr) THEN e.cdr.car ELSE e.cdr

BlankString(o) ==
    o.kind = "string" /\ \A i \in 1..Len(o.val) : o.val[i] \in {" ", "\t", "\n", "\r"}

\* (a ((k)) "t") as written with the bare name k.
Bare(k) == <<"<", "a", " ">> \o k \o <<">", "t", "<", "/", "a", ">">>

\* C18: an entry without second element, (k) or (k . ()), is written as the bare name
\* k, without "=" and quotes; an entry whose value is the empty string or a string of
\* white space alone is written as k="".
C18_BareOrEmpty ==
    (AttrDone /\ Len(CallEntries) = 1 /\ FirstEntry.car.kind = "symbol") =>
        /\ IsNil(FirstEntry.cdr) => Written = Bare(FirstEntry.car.val)
        /\ (~IsNil(FirstEntry.cdr) /\ BlankString(EntryObj(FirstEntry))) =>
               Written = Quoted(FirstEntry.car.val, <<>>)

\* What is written for the entry (b . "w"), if the list of the call holds it.
RestText == IF Len(CallEntries) = 2 THEN <<" ", "b", "=", "\"", "w", "\"">> ELSE <<>>

\* The element of the call as written with the text x for its first entry; the
\* attributes stand in the order of their names, a before b before href.
WithFirst(x) ==
    <<"<", "a">>
        \o (IF FirstEntry.car = Symbol(KeyA) THEN x \o RestText ELSE RestText \o x)
        \o <<">", "t", "<", "/", "a", ">">>

Usable(o) == o.kind \in {"string", "symbol", "number"}

\* C19: the value of an entry is its dotted cdr or its second element; a string gives
\* its text, a symbol its name, a number its decimal text, written as the string of
\* that text is written; an entry with another value (a list, or Nil as second
\* element) and an entry whose key is a string or Nil give no attribute.
C19_EntryValue ==
    AttrDone =>
        LET e == FirstEntry
            o == EntryObj(e)
        IN  /\ e.car.kind # "symbol" => Written = WithFirst(<<>>)
            /\ (e.car.kind = "symbol" /\ ~IsNil(e.cdr)) =>
                   IF Usable(o)
                   THEN /\ Written =
                               Render(myEncoder.gen,
                                      AttrElem(<<Cons(e.car, String(o.val))>> \o Tail(CallEntries)))
                        /\ o.val \in {<<"v">>, <<"s">>, <<"7">>} =>
                               Written = WithFirst(<<" ">> \o e.car.val \o <<"=", "\"">>
                                                       \o o.val \o <<"\"">>)
                   ELSE Written = WithFirst(<<>>)

C19_Witness ==
    /\ AttrDone
    /\ CallEntries = <<MakeList(<<Symbol(KeyHref), Symbol(<<"s">>)>>), EntryBW>>
    /\ Written = <<"<", "a", " ", "b", "=", "\"", "w", "\"", " ",
                   "h", "r", "e", "f", "=", "\"", "s", "\"", ">", "t", "<", "/", "a", ">">>

----------------------------------------------------------------------------
(* Attribute names and their classification: (a ((name . "v")) "t").       *)

\* url, xuri, srcx, data-url, svg:uri, svg:data-url, onurl, data-onsrc, x:onuri,
\* xmlns:onurl, onload, title, data-x.
KindNames ==
    {<<"u", "r", "l">>, <<"x", "u", "r", "i">>, <<"s", "r", "c", "x">>,
     <<"d", "a", "t", "a", "-", "u", "r", "l">>, <<"s", "v", "g", ":", "u", "r", "i">>,
     <<"s", "v", "g", ":", "d", "a", "t", "a", "-", "u", "r", "l">>,
     <<"o", "n", "u", "r", "l">>, <<"d", "a", "t", "a", "-", "o", "n", "s", "r", "c">>,
     <<"x", ":", "o", "n", "u", "r", "i">>, <<"x", "m", "l", "n", "s", ":", "o", "n", "u", "r", "l">>,
     <<"o", "n", "l", "o", "a", "d">>, <<"t", "i", "t", "l", "e">>, <<"d", "a", "t", "a", "-", "x">>}

\* Values that URL escaping changes and one that it leaves.
KindValues == {<<"z", " ", "z">>, <<"%">>, <<"z">>}

KindCalls ==
    {HTMLCall(GoodSink, ValueElem(k, v)) : k \in KindNames, v \in KindValues}
        \cup {ListCall(GoodSink, Twice(ValueElem(k, <<"z">>))) : k \in KindNames}

SpecKind == InitOver(KindCalls) /\ [][Next]_vars

\* The name of the attribute of the call.
CallName == call.obj.cdr.car.car.car.val

\* A name without its leading "data-", or else without its namespace prefix up to ":".
Stripped(name) ==
    IF HasPrefix(name, <<"d", "a", "t", "a", "-">>) THEN Drop(name, 5)
    ELSE IF \E i \in 1..Len(name) : name[i] = ":"
         THEN Drop(name, CHOOSE i \in 1..Len(name) :
                             name[i] = ":" /\ \A j \in 1..(i - 1) : name[j] # ":")
    ELSE name

Urlish(name) ==
    \/ Count(name, <<"u", "r", "l">>) > 0
    \/ Count(name, <<"u", "r", "i">>) > 0
    \/ Count(name, <<"s", "r", "c">>) > 0

StartsWithOn(name) == Len(name) >= 2 /\ name[1] = "o" /\ name[2] = "n"

HasXmlns(name) == HasPrefix(name, <<"x", "m", "l", "n", "s", ":">>)

----------------------------------------------------------------------------
(* The raw directive: (@H child ...), and the same strings as plain atoms. *)

MaxRawLen == 2

RawBytes == {"&", "<", "\"", "a"}

\* &amp;, the string of the tests NoEscape and Escape.
AmpEntity == <<"&", "a", "m", "p", ";">>

RawStrings == StrUpTo(RawBytes, MaxRawLen) \cup {AmpEntity}

\* Strings, and children that are no strings: a symbol, a number, (), an element.
RawChildren ==
    {String(s) : s \in RawStrings} \cup {Symbol(<<"s">>), Number(<<"7">>), Nil, ChildB}

RawInputs ==
    {Elem(nameNoEscape, cs) : cs \in SeqsOfLen(RawChildren, 0) \cup SeqsOfLen(RawChildren, 1)
                                         \cup SeqsOfLen(RawChildren, 2)}
        \cup {String(s) : s \in RawStrings}

RawCalls ==
    {HTMLCall(GoodSink, obj) : obj \in RawInputs}
        \cup {ListCall(GoodSink, Twice(Elem(nameNoEscape, <<c>>))) : c \in RawChildren}

SpecRaw == InitOver(RawCalls) /\ [][Next]_vars

\* What the raw directive writes for a child: a string as it is, nothing for another child.
RawText(c) == IF c.kind = "string" THEN c.val ELSE <<>>

IsRaw(obj) == IsPair(obj) /\ obj.car = Symbol(nameNoEscape)

\* C21: (@H c1 ... cn) writes every string child byte for byte, unescaped, and nothing
\* for a child that is no string; the same string as a plain atom is written
\* text-escaped: (@H "&amp;") gives &amp; and "&amp;" gives &amp;amp;.
C21_RawVerbatim ==
    (pc = "done" /\ call.op = "WriteHTML") =>
        /\ IsRaw(call.obj) =>
               LET cs == Values(call.obj.cdr)
               IN  Written = Concat([i \in 1..Len(cs) |-> RawText(cs[i])])
        /\ call.obj.kind = "string" => Written = EscapedText(call.obj.val)
        /\ call.obj = Elem(nameNoEscape, <<String(AmpEntity)>>) => Written = AmpEntity
        /\ call.obj = String(AmpEntity) =>
               Written = <<"&", "a", "m", "p", ";", "a", "m", "p", ";">>

C21_Witness ==
    /\ pc = "done"
    /\ call = HTMLCall(GoodSink, Elem(nameNoEscape, <<String(AmpEntity), Number(<<"7">>)>>))
    /\ Written = <<"&", "a", "m", "p", ";">>

----------------------------------------------------------------------------
(* Lists of pairs at every position behind the tag symbol.                 *)

MaxItems == 3

PosTags == {<<"a">>, <<"l", "i">>, <<"p">>, <<"b", "r">>}

\* A list of pairs ((id . "i")) or ((c)), a string, an element.
PosItems == {AttrsId, AttrsC, StringX, ChildB}

PosInputs ==
    {Elem(t, is) : t \in PosTags,
                   is \in UNION {SeqsOfLen(PosItems, n) : n \in 1..MaxItems}}

PosCalls ==
    {HTMLCall(GoodSink, obj) : obj \in PosInputs}
        \cup {ListCall(GoodSink, Twice(Elem(t, <<StringX, as>>))) :
                t \in PosTags, as \in AttrOptions}

SpecPos == InitOver(PosCalls) /\ [][Next]_vars

\* The items behind the tag symbol of the element the call renders.
CallPosItems == Values(call.obj.cdr)

\* C25: a list of pairs is the attribute list of an element only as the first item
\* behind the tag symbol; as second or later item it gives the start tag no attribute
\* (and, having no symbol at its head, is written as nothing).
C25_AttrsOnlyFirst ==
    (TagDone /\ CallTag \in PosTags) =>
        LET first    == CallPosItems[1]
            attrText == IF first \in AttrOptions THEN AttrOptionText(first) ELSE <<>>
            rest     == IF first \in AttrOptions THEN Tail(CallPosItems) ELSE CallPosItems
            startTag == <<"<">> \o CallTag \o attrText \o <<">">>
        IN  /\ IF CallTag \in VoidTags
               THEN Written \in MaybeAfterNL(startTag)
               ELSE Written \in FullElement(CallTag, attrText, ChildrenText(rest))
            /\ Count(Written, <<" ", "i", "d", "=">>) = (IF first = AttrsId THEN 1 ELSE 0)
            /\ Count(Written, <<" ", "c">>) = (IF first = AttrsC THEN 1 ELSE 0)

C25_Witness ==
    /\ TagDone
    /\ call.obj = Elem(<<"a">>, <<StringX, AttrsId, AttrsC>>)
    /\ Written = <<"<", "a", ">", "X", "<", "/", "a", ">">>

----------------------------------------------------------------------------
(* Atoms between elements: (first atom second) and atoms rendered alone.   *)

\* A non-empty and an empty string, a number, the empty list, a symbol.
AtomNodes == {StringX, String(<<>>), Number(<<"7">>), Nil, Symbol(<<"s">>)}

\* (tag "X") for the tags of the line-break family.
AtomElems == {Elem(t, <<StringX>>) : t \in LineTagNames}

AtomCalls ==
    {HTMLCall(GoodSink, a) : a \in AtomNodes}
        \cup {ListCall(GoodSink, MakeList(<<t1, a, t2>>)) :
                t1 \in AtomElems, a \in AtomNodes, t2 \in AtomElems}

SpecAtom == InitOver(AtomCalls) /\ [][Next]_vars

\* What is written for an atom: the text of a string or a number, else nothing.
AtomText(a) == IF a.kind \in {"string", "number"} THEN EscapedText(a.val) ELSE <<>>

\* C26: a string, a number, the empty list and every other atom leave last-was-tag
\* false, whether or not they write something; so with the newline option set a
\* newline-triggering tag directly behind such a node has "\n" before its "<", also
\* behind an element that left last-was-tag true.
C26_AtomClearsLastWasTag ==
    /\ (pc = "done" /\ call.op = "WriteHTML" /\ call.obj \in AtomNodes) =>
           /\ ~myEncoder.lastWasTag
           /\ Written = AtomText(call.obj)
    /\ (ListDone /\ Len(CallItems) = 3 /\ CallItems[2] \in AtomNodes) =>
           LET g      == myEncoder.gen
               first  == CallItems[1]
               atom   == CallItems[2]
               second == CallItems[3]
               before == LineElemText(g, TRUE, first) \o AtomText(atom)
           IN  /\ Written = before \o LineElemText(g, FALSE, second)
               /\ Triggers(g, second) =>
                      HasPrefix(Written, before \o <<"\n", "<">> \o second.car.val)

C26_Witness ==
    /\ ListDone
    /\ myEncoder.gen.withNewline
    /\ call.obj = MakeList(<<LiX, Symbol(<<"s">>), LiX>>)
    /\ Written = <<"<", "l", "i", ">", "X", "<", "/", "l", "i", ">", "\n",
                   "\n", "<", "l", "i", ">", "X", "<", "/", "l", "i", ">", "\n">>

----------------------------------------------------------------------------
(* The same tree rendered with the newline option off and on.              *)

\* Trees without "\n" in a string: elements that are void, collapsed, with attributes,
\* nested, the directives, atoms.
OptionTrees == LineTrees \cup PosInputs \cup TagInputs

OptionCalls ==
    {HTMLCall(GoodSink, t) : t \in OptionTrees}
        \cup {ListCall(GoodSink, Twice(t)) : t \in LineTrees}

SpecOption == InitOver(OptionCalls) /\ [][Next]_vars

\* s without its "\n" bytes.
StripNL(s) == SelectSeq(s, LAMBDA b : b # "\n")

\* What the call writes on a generator g.
CallRender(g) ==
    IF call.op = "WriteHTML" THEN Render(g, call.obj)
    ELSE generateEach(NewEncoder(g, GoodSink), Values(call.obj)).pr.w.data

\* C27: the newline option only inserts "\n": what a call wrote, without its "\n"
\* bytes, is what the same call writes with the option off and with the option on,
\* without their "\n" bytes; and with the option on the output is not shorter.
C27_OptionOnlyAddsNewlines ==
    pc = "done" =>
        LET off == CallRender([withNewline |-> FALSE])
            on  == CallRender([withNewline |-> TRUE])
        IN  /\ Written = (IF myEncoder.gen.withNewline THEN on ELSE off)
            /\ StripNL(Written) = StripNL(off)
            /\ StripNL(Written) = StripNL(on)
            /\ Len(on) >= Len(off)

C27_Witness ==
    /\ pc = "done"
    /\ call = HTMLCall(GoodSink, Elem(<<"u", "l">>, <<StringX, LiX>>))
    /\ myEncoder.gen.withNewline
    /\ Written = <<"<", "u", "l", ">", "X", "\n", "<", "l", "i", ">", "X", "<", "/", "l", "i", ">", "\n",
                   "<", "/", "u", "l", ">", "\n">>
    /\ CallRender([withNewline |-> FALSE])
         = <<"<", "u", "l", ">", "X", "<", "l", "i", ">", "X", "<", "/", "l", "i", ">",
             "<", "/", "u", "l", ">">>

----------------------------------------------------------------------------
(* urlEscape applied to its own result.                                    *)

\* C28: urlEscape is idempotent: for the value v of href, urlEscape(urlEscape(v)) =
\* urlEscape(v); the element with the escaped value is written as the element with v.
C28_UrlEscapeIdempotent ==
    AttrDone =>
        LET once == urlEscape(CallValue)
        IN  /\ urlEscape(once) = once
            /\ Written = Quoted(KeyHref, AttrEscapedText(once))
            /\ Render(myEncoder.gen, ValueElem(KeyHref, once)) = Written

C28_Witness ==
    /\ AttrDone
    /\ CallValue = <<"%", "2">>
    /\ urlEscape(CallValue) = <<"%", "2", "5", "2">>
    /\ urlEscape(urlEscape(CallValue)) = <<"%", "2", "5", "2">>
    /\ Written = Quoted(KeyHref, <<"%", "2", "5", "2">>)

----------------------------------------------------------------------------
(* Entries whose value is a list, in front of and behind entries of the    *)
(* same key.                                                               *)

\* (1), ("v") and (1 . 2): values that are neither string nor symbol nor number.
ListValues ==
    {MakeList(<<Number(<<"1">>)>>), MakeList(<<String(<<"v">>)>>),
     Cons(Number(<<"1">>), Number(<<"2">>))}

DroppedKeys == {KeyA, KeyHref}

\* (k l) for a list l.
DroppedOf(k) == {MakeList(<<Symbol(k), l>>) : l \in ListValues}

DroppedListsOf(k) ==
    UNION {{<<d>>, <<d, e>>, <<d, EntryBW, e>>, <<e, d>>, <<EntryBW, d, e>>} :
             d \in DroppedOf(k), e \in EntriesOf(k)}

DroppedLists == UNION {DroppedListsOf(k) : k \in DroppedKeys}

DroppedCalls ==
    {HTMLCall(GoodSink, AttrElem(es)) : es \in DroppedLists}
        \cup {ListCall(GoodSink, Twice(AttrElem(<<d>>))) : d \in DroppedOf(KeyA)}

SpecDropped == InitOver(DroppedCalls) /\ [][Next]_vars

IsDropped(e) == IsPair(e.cdr) /\ e.cdr.car \in ListValues

\* C29: when the first entry of a key has a list as value, the entry is dropped and
\* still is the first of its key: the attribute is absent from the tag whatever
\* entries of the key follow, and the other attributes are written as without them.
C29_DroppedEntryCounts ==
    AttrDone =>
        \A k \in DroppedKeys :
            LET i == FirstIndex(CallEntries, k)
            IN  (i # 0 /\ IsDropped(CallEntries[i])) =>
                    /\ Count(Written, <<" ">> \o k) = 0
                    /\ Written = Render(myEncoder.gen, AttrElem(Without(CallEntries, k)))
                    /\ Written \in {<<"<", "a", ">", "t", "<", "/", "a", ">">>,
                                    Quoted(KeyB, <<"w">>)}

C29_Witness ==
    /\ AttrDone
    /\ CallEntries = <<MakeList(<<Symbol(KeyHref), MakeList(<<Number(<<"1">>)>>)>>),
                       EntryBW,
                       Cons(Symbol(KeyHref), String(<<" ", "y">>))>>
    /\ Written = Quoted(KeyB, <<"w">>)

----------------------------------------------------------------------------
(* sxhtmls: ToSxHTML, from a tree of htmls.Node to an SxHTML object.       *)
(* A node is a record of its Type, Data, Attributes (records of Key and    *)
(* Value) and Children; NilNode is the nil pointer.  A result is the       *)
(* object and the error the function returns: NoObject is the nil          *)
(* interface, NilError the nil error.                                      *)

NilNode == [type |-> "nil"]

Node(type, data, attributes, children) ==
    [type |-> type, data |-> data, attributes |-> attributes, children |-> children]

Attribute(key, value) == [key |-> key, value |-> value]

NoObject == [kind |-> "none", val |-> <<>>]

NilError == <<>>

errEmptySymbol == <<"empty symbol string">>

errUnknownType(type) == <<"unknown node type", type>>

\* makeSymbol: the symbol of the trimmed string, or errEmptySymbol.
makeSymbol(s) ==
    LET t == TrimSpace(s)
    IN  IF t = <<>> THEN [obj |-> NoObject, err |-> errEmptySymbol]
        ELSE [obj |-> Symbol(t), err |-> NilError]

\* The loop of toSxAttrs from the attributes left; done holds the pairs built so far.
RECURSIVE toSxAttrsLoop(_, _)
toSxAttrsLoop(attrs, done) ==
    IF attrs = <<>> THEN [obj |-> MakeList(done), err |-> NilError]
    ELSE LET sym == makeSymbol(Head(attrs).key)
         IN  IF sym.err # NilError THEN [obj |-> NoObject, err |-> sym.err]
             ELSE toSxAttrsLoop(Tail(attrs),
                                Append(done, Cons(sym.obj, String(Head(attrs).value))))

\* toSxAttrs that builds the list from the last attribute to the first.
RECURSIVE toSxAttrs_reversed(_)
toSxAttrs_reversed(attrs) ==
    IF attrs = <<>> THEN [obj |-> NoObject, err |-> NilError]
    ELSE LET sym  == makeSymbol(Head(attrs).key)
             rest == toSxAttrs_reversed(Tail(attrs))
         IN  IF sym.err # NilError THEN [obj |-> NoObject, err |-> sym.err]
             ELSE IF rest.err # NilError THEN rest
             ELSE [obj |-> MakeList(Values(rest.obj)
                                      \o <<Cons(sym.obj, String(Head(attrs).value))>>),
                   err |-> NilError]

\* toSxAttrs: no list (NoObject) for no attributes, else the list of (key . "value").
toSxAttrs(attrs) ==
    IF Len(attrs) = 0 THEN [obj |-> NoObject, err |-> NilError]
    ELSE toSxAttrsLoop(attrs, <<>>)

RECURSIVE ToSxHTML(_)
RECURSIVE toSxChildren(_, _)

\* The loop over the children that leaves out a child that cannot be converted.
toSxChildren_skipFailed(children, lb) ==
    IF children = <<>> THEN [obj |-> MakeList(lb), err |-> NilError]
    ELSE LET child == ToSxHTML(Head(children))
         IN  IF child.err # NilError THEN toSxChildren(Tail(children), lb)
             ELSE toSxChildren(Tail(children), Append(lb, child.obj))

\* The loop of ToSxHTML over the children left; lb holds the items of the list builder.
toSxChildren(children, lb) ==
    IF children = <<>> THEN [obj |-> MakeList(lb), err |-> NilError]
    ELSE LET child == ToSxHTML(Head(children))
         IN  IF child.err # NilError THEN [obj |-> NoObject, err |-> child.err]
             ELSE toSxChildren(Tail(children), Append(lb, child.obj))

ToSxHTML(n) ==
    IF n = NilNode THEN [obj |-> Nil, err |-> NilError]
    ELSE CASE n.type = "TextNode" -> [obj |-> String(n.data), err |-> NilError]
           [] n.type = "RawNode" ->
                 [obj |-> MakeList(<<Symbol(nameNoEscape), String(n.data)>>), err |-> NilError]
           [] n.type = "CommentNode" ->
                 [obj |-> MakeList(<<Symbol(nameBlockComment), String(n.data)>>), err |-> NilError]
           [] n.type = "ElementNode" ->
                 LET tag   == makeSymbol(n.data)
                     attrs == toSxAttrs(n.attributes)
                 IN  IF tag.err # NilError THEN [obj |-> NoObject, err |-> tag.err]
                     ELSE IF attrs.err # NilError THEN [obj |-> NoObject, err |-> attrs.err]
                     ELSE toSxChildren(n.children,
                                       IF attrs.obj # NoObject THEN <<tag.obj, attrs.obj>>
                                       ELSE <<tag.obj>>)
           [] OTHER -> [obj |-> NoObject, err |-> errUnknownType(n.type)]

\* The caller converts the node of the call.
CallToSxHTML ==
    /\ pc = "new"
    /\ call.op = "ToSxHTML"
    /\ ret' = ToSxHTML(call.n)
    /\ log' = Append(log, ToSxHTML(call.n))
    /\ pc' = "done"
    /\ UNCHANGED <<gen, call, myEncoder, form, se>>

NextConvert == CallToSxHTML

----------------------------------------------------------------------------
(* Trees of nodes up to three levels deep, with and without faults.        *)

MaxNodeChildren == 2

\* htmls.Text, htmls.Elem, htmls.Attrs and the node literals of the tests.
Text(data) == Node("TextNode", data, <<>>, <<>>)

HElem(name, attributes, children) == Node("ElementNode", name, attributes, children)

RawOf(data) == Node("RawNode", data, <<>>, <<>>)

CommentOf(data) == Node("CommentNode", data, <<>>, <<>>)

UnknownNode == Node("255", <<>>, <<>>, <<>>)

LeafNodes == {NilNode, Text(<<"a", "<">>), RawOf(<<"r">>), CommentOf(<<"c">>), UnknownNode}

\* li, em with blanks around it, the empty name, a name of white space.
TagStrings == {<<"l", "i">>, <<" ", "e", "m", "\t">>, <<>>, <<" ", "\n">>}

\* No attribute; one; two of one key; a key with blanks around it; an empty key behind
\* a good one; a key of white space.
AttributeLists ==
    {<<>>,
     <<Attribute(<<"h", "r", "e", "f">>, <<"u">>)>>,
     <<Attribute(<<"s">>, <<"1">>), Attribute(<<"r">>, <<>>), Attribute(<<"s">>, <<"2">>)>>,
     <<Attribute(<<" ", "k", " ">>, <<" ", "v">>)>>,
     <<Attribute(<<"k">>, <<"v">>), Attribute(<<>>, <<"v">>)>>,
     <<Attribute(<<"\t">>, <<"v">>)>>}

NodesUpTo(S, n) == UNION {SeqsOfLen(S, i) : i \in 0..n}

\* Elements over leaves.
FlatElems ==
    {HElem(t, as, cs) : t \in TagStrings, as \in AttributeLists,
                        cs \in NodesUpTo(LeafNodes, MaxNodeChildren)}

\* The elements that stand inside other elements.
InnerElems ==
    {HElem(<<"l", "i">>, <<Attribute(<<"v">>, <<"1">>)>>, <<Text(<<"1">>)>>),
     HElem(<<"b", "r">>, <<>>, <<>>),
     HElem(<<>>, <<>>, <<>>),
     HElem(<<"l", "i">>, <<Attribute(<<" ">>, <<"v">>)>>, <<>>),
     HElem(<<"e", "m">>, <<>>, <<UnknownNode>>)}

NestedElems ==
    {HElem(<<"o", "l">>, as, cs) :
        as \in {<<>>, <<Attribute(<<"s">>, <<"1">>)>>},
        cs \in NodesUpTo(InnerElems \cup {Text(<<"t">>), NilNode}, MaxNodeChildren)}

DeepElems ==
    {HElem(<<"d", "i", "v">>, <<>>, <<Text(<<"t">>), HElem(<<"o", "l">>, <<>>, <<e>>)>>) :
        e \in InnerElems}

ConvertNodes == LeafNodes \cup FlatElems \cup NestedElems \cup DeepElems

ConvertCalls == {[op |-> "ToSxHTML", n |-> n, w |-> GoodSink] : n \in ConvertNodes}

SpecConvert ==
    /\ gen = NewGenerator
    /\ call \in ConvertCalls
    /\ pc = "new"
    /\ myEncoder = NewEncoder(NewGenerator, GoodSink)
    /\ ret = [obj |-> NoObject, err |-> NilError]
    /\ log = <<>>
    /\ form = NilPointer
    /\ se = NilPointer
    /\ [][NextConvert]_vars

ConvertDone == pc = "done" /\ call.op = "ToSxHTML"

Blank(s) == \A i \in 1..Len(s) : s[i] \in {" ", "\t", "\n", "\r"}

\* Whether the tree of n holds an element with a blank tag name or a blank attribute
\* key, or a node of an unknown type.
RECURSIVE HasFault(_)
HasFault(n) ==
    /\ n # NilNode
    /\ \/ n.type \notin {"TextNode", "ElementNode", "RawNode", "CommentNode"}
       \/ /\ n.type = "ElementNode"
          /\ \/ Blank(n.data)
             \/ \E i \in 1..Len(n.attributes) : Blank(n.attributes[i].key)
             \/ \E i \in 1..Len(n.children) : HasFault(n.children[i])

\* C22: when an element of the tree, at any depth, has a tag name or an attribute key
\* that is empty after trimming, or a node of the tree has an unknown type, ToSxHTML
\* returns an error and no object; with an error it never returns an object.
C22_FaultGivesErrorOnly ==
    ConvertDone =>
        /\ HasFault(call.n) => (ret.err # NilError /\ ret.obj = NoObject)
        /\ ret.err # NilError => ret.obj = NoObject
        /\ ret.err \in {NilError, errEmptySymbol, errUnknownType("255")}

C22_Witness ==
    /\ ConvertDone
    /\ call.n = HElem(<<"d", "i", "v">>, <<>>,
                      <<Text(<<"t">>),
                        HElem(<<"o", "l">>, <<>>, <<HElem(<<"e", "m">>, <<>>, <<UnknownNode>>)>>)>>)
    /\ ret = [obj |-> NoObject, err |-> errUnknownType("255")]

\* The object the claim describes for a tree without fault.
RECURSIVE Converted(_)
Converted(n) ==
    IF n = NilNode THEN Nil
    ELSE CASE n.type = "TextNode" -> String(n.data)
           [] n.type = "RawNode" -> MakeList(<<Symbol(<<"@", "H">>), String(n.data)>>)
           [] n.type = "CommentNode" -> MakeList(<<Symbol(<<"@", "@", "@">>), String(n.data)>>)
           [] n.type = "ElementNode" ->
                 MakeList(<<Symbol(TrimSpace(n.data))>>
                          \o (IF Len(n.attributes) > 0
                              THEN <<MakeList([i \in 1..Len(n.attributes) |->
                                                 Cons(Symbol(TrimSpace(n.attributes[i].key)),
                                                      String(n.attributes[i].value))])>>
                              ELSE <<>>)
                          \o [i \in 1..Len(n.children) |-> Converted(n.children[i])])

\* C23: a nil node becomes Nil, a text node a string, a raw node (@H data), a comment
\* node (@@@ data), an element node the list of its tag symbol, then, only if it has an
\* attribute, the list of the pairs (key . "value") in the order of the attributes,
\* then its converted children in their order; no error is returned.
C23_Conversion ==
    (ConvertDone /\ ~HasFault(call.n)) =>
        /\ ret.err = NilError
        /\ ret.obj = Converted(call.n)

C23_Witness ==
    /\ ConvertDone
    /\ call.n = HElem(<<"o", "l">>, <<Attribute(<<"s">>, <<"1">>)>>,
                      <<HElem(<<"l", "i">>, <<Attribute(<<"v">>, <<"1">>)>>, <<Text(<<"1">>)>>),
                        HElem(<<"b", "r">>, <<>>, <<>>)>>)
    /\ ret.err = NilError
    /\ ret.obj = MakeList(<<Symbol(<<"o", "l">>),
                            MakeList(<<Cons(Symbol(<<"s">>), String(<<"1">>))>>),
                            MakeList(<<Symbol(<<"l", "i">>),
                                       MakeList(<<Cons(Symbol(<<"v">>), String(<<"1">>))>>),
                                       String(<<"1">>)>>),
                            MakeList(<<Symbol(<<"b", "r">>)>>)>>)

----------------------------------------------------------------------------
(* sxforms: the Form and its validation.  form is the Form of the caller:  *)
(* its fields (records of itype, name, label, value, validators), the map  *)
(* fieldnames (a name to the index of its field) and the map errors (a     *)
(* field name to the errors of the last failed validation; the nil map is  *)
(* the function on no name).  Field names, labels and messages are         *)
(* strings; values are texts.  An error value is NilError, or the kind of  *)
(* the error and its message.                                              *)

StopValidationError(msg) == <<"StopValidationError", msg>>

\* An error of another type, as a validator of the caller may return it.
OtherError(msg) == <<"error", msg>>

isStop(err) == err # NilError /\ err[1] = "StopValidationError"

InputRequired(msg) == [kind |-> "InputRequired", msg |-> msg]

\* A validator of the caller: it returns err for the values of the set, nil otherwise.
Rejecting(values, err) == [kind |-> "Rejecting", values |-> values, err |-> err]

\* Validator.Check.
Check(validator, value) ==
    IF validator.kind = "InputRequired"
    THEN IF TrimSpace(value) # <<>> THEN NilError
         ELSE IF validator.msg = "" THEN StopValidationError("Input required")
         ELSE StopValidationError(validator.msg)
    ELSE IF value \in validator.values THEN validator.err ELSE NilError

MakeTextField(name, label, validators) ==
    [itype |-> "text", name |-> name, label |-> label, value |-> <<>>,
     validators |-> validators, autofocus |-> FALSE]

MakePasswordField(name, label, validators) ==
    [itype |-> "password", name |-> name, label |-> label, value |-> <<>>,
     validators |-> validators, autofocus |-> FALSE]

MakeSubmitField(name, value) ==
    [itype |-> "submit", name |-> name, label |-> "", value |-> value,
     validators |-> <<>>, autofocus |-> FALSE]

\* InputField.Value.
FieldValue(fd) == IF fd.itype = "submit" THEN <<>> ELSE fd.value

NoErrors == <<>>

\* Make: the last field of a name is the field of the name.
Make(fields) ==
    [fields     |-> fields,
     fieldnames |-> [name \in {fields[i].name : i \in 1..Len(fields)} |->
                        CHOOSE i \in 1..Len(fields) :
                            /\ fields[i].name = name
                            /\ \A j \in (i + 1)..Len(fields) : fields[j].name # name],
     errors     |-> NoErrors]

\* SetFormData: data maps names to lists of values.
SetFormData(f, data) ==
    [f EXCEPT
       !.fields = [i \in 1..Len(f.fields) |->
                     LET name == f.fields[i].name
                     IN  IF name \in DOMAIN data /\ f.fieldnames[name] = i
                         THEN [f.fields[i] EXCEPT
                                 !.value = IF Len(data[name]) > 0 THEN data[name][1] ELSE <<>>]
                         ELSE f.fields[i]],
       !.errors = NoErrors]

\* errors with err added to the errors of fieldName.
addError(errors, fieldName, err) ==
    IF DOMAIN errors = {} THEN (fieldName :> <<err>>)
    ELSE IF fieldName \in DOMAIN errors
         THEN [errors EXCEPT ![fieldName] = Append(@, err)]
         ELSE (fieldName :> <<err>>) @@ errors

\* The loop over the validators of a field that goes on behind a StopValidationError.
RECURSIVE checkValidators_noBreak(_, _, _, _)
checkValidators_noBreak(errors, fieldName, value, validators) ==
    IF validators = <<>> THEN errors
    ELSE LET err == Check(Head(validators), value)
         IN  IF err = NilError
             THEN checkValidators_noBreak(errors, fieldName, value, Tail(validators))
             ELSE checkValidators_noBreak(addError(errors, fieldName, err), fieldName, value,
                                          Tail(validators))

\* The loop of IsValid over the validators left of one field.
RECURSIVE checkValidators(_, _, _, _)
checkValidators(errors, fieldName, value, validators) ==
    IF validators = <<>> THEN errors
    ELSE LET err == Check(Head(validators), value)
         IN  IF err = NilError
             THEN checkValidators(errors, fieldName, value, Tail(validators))
             ELSE IF isStop(err) THEN addError(errors, fieldName, err)
             ELSE checkValidators(addError(errors, fieldName, err), fieldName, value,
                                  Tail(validators))

\* The loop of IsValid over the fields left.
RECURSIVE checkFields(_, _)
checkFields(errors, fields) ==
    IF fields = <<>> THEN errors
    ELSE checkFields(checkValidators(errors, Head(fields).name, FieldValue(Head(fields)),
                                     Head(fields).validators),
                     Tail(fields))

\* IsValid: the form behind the call and the value returned.
IsValid(f) ==
    LET errors == checkFields(NoErrors, f.fields)
    IN  IF DOMAIN errors = {} THEN [form |-> f, valid |-> TRUE]
        ELSE [form |-> [f EXCEPT !.errors = errors], valid |-> FALSE]

\* The caller fills the form with data.
CallSetFormData(data) ==
    /\ form # NilPointer
    /\ form' = SetFormData(form, data)
    /\ pc' = "new"
    /\ UNCHANGED <<gen, call, myEncoder, ret, log, se>>

\* The caller validates the form.
CallIsValid ==
    /\ form # NilPointer
    /\ form' = IsValid(form).form
    /\ ret' = [valid |-> IsValid(form).valid]
    /\ pc' = "done"
    /\ UNCHANGED <<gen, call, myEncoder, log, se>>

----------------------------------------------------------------------------
(* Forms of a text field, a password field and a submit field.             *)

MaxValidators == 2

\* InputRequired with and without message, and validators of the caller that reject
\* some values with a plain error or with a StopValidationError.
FormValidators ==
    {InputRequired(""), InputRequired("username"),
     Rejecting({<<>>, <<"u">>}, OtherError("short")),
     Rejecting({<<"u">>, <<" ">>}, StopValidationError("bad"))}

ValidatorLists == UNION {SeqsOfLen(FormValidators, n) : n \in 0..MaxValidators}

PasswordValidators ==
    {<<>>, <<InputRequired("password")>>,
     <<Rejecting({<<>>, <<"u">>}, OtherError("short")), InputRequired("password")>>}

Forms ==
    {Make(<<MakeTextField("username", "User name", vs),
            MakePasswordField("password", "Password", ps),
            MakeSubmitField("submit", <<"L", "o", "g", "i", "n">>)>>) :
        vs \in ValidatorLists, ps \in PasswordValidators}

FormValues == {<<>>, <<" ">>, <<"u">>, <<"u", "s", "e", "r">>}

\* url.Values: nil, and maps of some of the names (and of a name without field) to no
\* value or one.
ValueLists == {<<>>} \cup {<<v>> : v \in FormValues}

FormData ==
    {<<>>}
        \cup UNION {[names -> ValueLists] : names \in {{"username"}, {"password"}, {"x"},
                                                        {"username", "password"}}}

FormNext == CallIsValid \/ \E data \in FormData : CallSetFormData(data)

SpecForm ==
    /\ gen = NewGenerator
    /\ call = [op |-> "IsValid", w |-> GoodSink]
    /\ pc = "new"
    /\ myEncoder = NewEncoder(NewGenerator, GoodSink)
    /\ ret = [valid |-> FALSE]
    /\ log = <<>>
    /\ form \in Forms
    /\ se = NilPointer
    /\ [][FormNext]_vars

\* What the validators of the field fd report for its value, each on its own.
Reports(fd) == [i \in 1..Len(fd.validators) |-> Check(fd.validators[i], FieldValue(fd))]

\* The errors of the validators of fd that run: those up to the first StopValidationError.
Reported(fd) ==
    LET r     == Reports(fd)
        stops == {i \in 1..Len(r) : isStop(r[i])}
        last  == IF stops = {} THEN Len(r) ELSE CHOOSE i \in stops : \A j \in stops : i <= j
    IN  SelectSeq(SubSeq(r, 1, last), LAMBDA e : e # NilError)

StoredErrors(name) == IF name \in DOMAIN form.errors THEN form.errors[name] ELSE <<>>

\* C24: IsValid returns true exactly when no validator of any field reports an error for
\* the value of the field; when it returns false, the stored errors hold for every field
\* name the errors its validators reported, in order, up to and including the first
\* StopValidationError of the field, and nothing for another name; a stop in one field
\* leaves the other fields validated.
C24_IsValid ==
    pc = "done" =>
        /\ ret.valid <=>
               \A i \in 1..Len(form.fields) :
                   \A j \in 1..Len(form.fields[i].validators) :
                       Reports(form.fields[i])[j] = NilError
        /\ ~ret.valid =>
               /\ \A i \in 1..Len(form.fields) :
                      StoredErrors(form.fields[i].name) = Reported(form.fields[i])
               /\ DOMAIN form.errors \subseteq {form.fields[i].name : i \in 1..Len(form.fields)}
        /\ ret.valid => form.errors = NoErrors

C24_Witness ==
    /\ pc = "done"
    /\ ~ret.valid
    /\ form.fields[1].validators
         = <<Rejecting({<<>>, <<"u">>}, OtherError("short")), InputRequired("")>>
    /\ form.fields[1].value = <<>>
    /\ form.fields[2].validators
         = <<Rejecting({<<>>, <<"u">>}, OtherError("short")), InputRequired("password")>>
    /\ form.fields[2].value = <<"u">>
    /\ form.errors = ("username" :> <<OtherError("short"), StopValidationError("Input required")>>)
                       @@ ("password" :> <<OtherError("short")>>)

----------------------------------------------------------------------------
(* sxforms: the select element.  se is the SelectElement of the caller;    *)
(* its choices are texts, by turns a value and the text shown for it.      *)

Required(msg) == [kind |-> "Required", Message |-> msg]

\* Validator.Attributes of Required: ((required)).
Attributes(validator) == MakeList(<<Cons(Symbol(<<"r", "e", "q", "u", "i", "r", "e", "d">>), Nil)>>)

\* SetChoices: no choices for none or one, all for an even number, and for an odd
\* number the slice choices[0 : len(choices)-2].
SetChoices(elem, choices) ==
    [elem EXCEPT !.choices =
        IF Len(choices) = 0 \/ Len(choices) = 1 THEN <<>>
        ELSE IF Len(choices) % 2 # 0 THEN SubSeq(choices, 1, Len(choices) - 2)
        ELSE choices]

SelectField(name, label, choices, validators) ==
    SetChoices([name |-> name, label |-> label, choices |-> <<>>, value |-> <<>>,
                validators |-> validators, disabled |-> FALSE],
               choices)

\* SelectElement.SetValue: the element behind the call and the error returned.
SelectSetValue(elem, value) ==
    [se  |-> [elem EXCEPT !.value = value],
     err |-> IF \E i \in 1..Len(elem.choices) : i % 2 = 1 /\ elem.choices[i] = value
             THEN NilError ELSE <<"no such choice", value>>]

\* renderLabel of a field without label; the fields of the model have none.
renderLabel(field, fieldID, label) ==
    IF label = "" THEN <<>>
    ELSE <<MakeList(<<Symbol(<<"l", "a", "b", "e", "l">>),
                      MakeList(<<Cons(Symbol(<<"f", "o", "r">>), String(fieldID))>>),
                      String(label)>>)>>

\* renderMessages: the items (span ((class . "message")) msg).
renderMessages(messages) ==
    [i \in 1..Len(messages) |->
        MakeList(<<Symbol(<<"s", "p", "a", "n">>),
                   MakeList(<<Cons(Symbol(<<"c", "l", "a", "s", "s">>),
                                   String(<<"m", "e", "s", "s", "a", "g", "e">>))>>),
                   String(messages[i])>>)]

\* addBoolAttribute: the items added to the list builder.
addBoolAttribute(sym, val) == IF val THEN <<Cons(sym, Nil)>> ELSE <<>>

renderValidators(validators) ==
    Concat([i \in 1..Len(validators) |-> Values(Attributes(validators[i]))])

\* addEnablingAttributes: the items added to the list builder.
addEnablingAttributes(disabled, validators) ==
    IF disabled THEN <<Cons(Symbol(<<"d", "i", "s", "a", "b", "l", "e", "d">>), Nil)>>
    ELSE renderValidators(validators)

\* The loop of Render over the choices from index i on (the first choice has index 1);
\* reading choices[i+1] behind the end of the slice is a run-time panic.
RECURSIVE renderOptions(_, _, _)
renderOptions(elem, i, wlb) ==
    IF i > Len(elem.choices) THEN [panic |-> FALSE, items |-> wlb]
    ELSE IF i + 1 > Len(elem.choices) THEN [panic |-> TRUE, items |-> wlb]
    ELSE LET choice == elem.choices[i]
             text   == elem.choices[i + 1]
             alb    == <<Cons(Symbol(<<"v", "a", "l", "u", "e">>), String(choice))>>
                         \o addBoolAttribute(Symbol(<<"d", "i", "s", "a", "b", "l", "e", "d">>),
                                             choice = <<>>)
                         \o addBoolAttribute(Symbol(<<"s", "e", "l", "e", "c", "t", "e", "d">>),
                                             elem.value = choice)
         IN  renderOptions(elem, i + 2,
                 Append(wlb, MakeList(<<Symbol(<<"o", "p", "t", "i", "o", "n">>),
                                        MakeList(alb), String(text)>>)))

\* SelectElement.Render: the list returned, or a panic.
SelectElementRender(elem, fieldID, messages) ==
    LET attrLb  == <<Cons(Symbol(<<"i", "d">>), String(fieldID)),
                     Cons(Symbol(<<"n", "a", "m", "e">>), String(elem.name))>>
                     \o addEnablingAttributes(elem.disabled, elem.validators)
        options == renderOptions(elem, 1,
                                 <<Symbol(<<"s", "e", "l", "e", "c", "t">>), MakeList(attrLb)>>)
    IN  IF options.panic THEN [panic |-> TRUE, obj |-> NoObject]
        ELSE [panic |-> FALSE,
              obj   |-> MakeList(<<Symbol(<<"d", "i", "v">>)>>
                                   \o renderLabel(elem, fieldID, elem.label)
                                   \o renderMessages(messages)
                                   \o <<MakeList(options.items)>>)]

MaxChoices == 4

ChoiceTexts == {<<"a">>, <<>>}

\* Slices of every length from 0 to MaxChoices.
ChoiceLists == UNION {SeqsOfLen(ChoiceTexts, n) : n \in 0..MaxChoices}

SelectValidators == {<<>>, <<Required("")>>}

\* The caller sets the choices anew.
CallSetChoices(choices) ==
    /\ pc = "new"
    /\ se # NilPointer
    /\ se' = SetChoices(se, choices)
    /\ UNCHANGED <<gen, call, pc, myEncoder, ret, log, form>>

CallSelectSetValue(value) ==
    /\ pc = "new"
    /\ se # NilPointer
    /\ se' = SelectSetValue(se, value).se
    /\ ret' = [panic |-> FALSE, err |-> SelectSetValue(se, value).err]
    /\ UNCHANGED <<gen, call, pc, myEncoder, log, form>>

CallDisable ==
    /\ pc = "new"
    /\ se # NilPointer
    /\ se' = [se EXCEPT !.disabled = TRUE]
    /\ UNCHANGED <<gen, call, pc, myEncoder, ret, log, form>>

\* The caller renders the element; a panic ends the caller.
CallSelectRender(messages) ==
    /\ pc = "new"
    /\ se # NilPointer
    /\ ret' = SelectElementRender(se, <<"i">>, messages)
    /\ pc' = "done"
    /\ UNCHANGED <<gen, call, myEncoder, log, form, se>>

SelectNext ==
    \/ \E choices \in ChoiceLists : CallSetChoices(choices)
    \/ \E value \in ChoiceTexts \cup {<<"b">>} : CallSelectSetValue(value)
    \/ CallDisable
    \/ \E messages \in {<<>>, <<<<"m">>>>} : CallSelectRender(messages)

SpecSelect ==
    /\ gen = NewGenerator
    /\ call = [op |-> "Render", w |-> GoodSink]
    /\ pc = "new"
    /\ myEncoder = NewEncoder(NewGenerator, GoodSink)
    /\ ret = [panic |-> FALSE, err |-> NilError]
    /\ log = <<>>
    /\ form = NilPointer
    /\ se \in {SelectField(<<"s">>, "", choices, validators) :
                 choices \in ChoiceLists, validators \in SelectValidators}
    /\ [][SelectNext]_vars

\* C30 as claimed: behind SelectField and every SetChoices the stored choices have even
\* length, and Render reads a text for every choice value and never reads behind the
\* end of the choices.
C30_EvenChoices ==
    /\ Len(se.choices) % 2 = 0
    /\ pc = "done" => ~ret.panic

====
